---- MODULE Spec2Model ----
(***************************************************************************)
(* A model of the byte-stream compression library: the LZW, Huffman and    *)
(* arithmetic codecs (src/src/algorithms) and the file adapter they share  *)
(* (BaseCompressor).  Every call is a frame record (the call's locals and  *)
(* its position); one operator per block of the source maps a frame to the *)
(* next one, and the actions apply these operators to the variables.       *)
(* Bytes are integers 0..255, byte strings are sequences of bytes, Python  *)
(* dicts are functions and bit strings are sequences over {0, 1}.          *)
(***************************************************************************)
EXTENDS Integers, Sequences, FiniteSets, TLC

VARIABLES
    lzw_enc,      \* LZWCompressor: the compress call
    lzw_dec,      \* LZWCompressor: the decompress call
    lzw_unpack,   \* LZWCompressor: the _bytes_to_codes call
    lzw_dec_tampered, \* LZWCompressor: a decompress call on a changed stream or code list
    lzw_calls,    \* LZWCompressor: the whole compress calls made on the instance
    arith_enc,    \* ArithmeticCompressor: the compress call and the instance
    arith_dec,    \* ArithmeticCompressor: the decompress call
    arith_calls,  \* compress calls made on the ArithmeticCompressor instance
    arith_dec_tampered, \* ArithmeticCompressor: a decompress call on altered metadata
    huff_enc,     \* HuffmanCompressor: the last compress call and the instance
    huff_dec,     \* HuffmanCompressor: the last decompress call
    huff_calls,   \* compress calls made on the HuffmanCompressor instance
    huff_dec_without, \* HuffmanCompressor: a decompress call on metadata short of a field
    huff_dec_tampered, \* HuffmanCompressor: a decompress call on another original_length
    fs,           \* the files: path -> content
    inst,         \* the codec instance compress_file/decompress_file run on
    file_call,    \* the last compress_file/decompress_file call and its outcome
    file_call_no_metadata, \* decompress_file called on a path with no metadata file
    file_call_stale, \* a second compress_file, then decompress_file of the first output
    bucket,       \* CloudSimulator: the files of bucket_dir, path |-> content
    cloud_call,   \* the last CloudSimulator call, its arguments and its outcome
    cloud_uploads, \* upload calls made on the bucket
    cloud_download \* the download call after the last upload: outcome and file written

vars == <<lzw_enc, lzw_dec, lzw_unpack, lzw_dec_tampered, lzw_calls, arith_enc,
          arith_dec, arith_calls, arith_dec_tampered,
          huff_enc, huff_dec, huff_calls, huff_dec_without, huff_dec_tampered,
          fs, inst, file_call, file_call_no_metadata, file_call_stale,
          bucket, cloud_call, cloud_uploads, cloud_download>>

huff_vars == <<huff_enc, huff_dec, huff_calls, huff_dec_without, huff_dec_tampered>>

file_vars == <<fs, inst, file_call, file_call_no_metadata, file_call_stale>>

lzw_vars == <<lzw_enc, lzw_dec, lzw_unpack, lzw_dec_tampered, lzw_calls>>

cloud_vars == <<bucket, cloud_call, cloud_uploads, cloud_download>>

arith_vars == <<arith_enc, arith_dec, arith_calls, arith_dec_tampered>>

(***************************************************************************)
(* Bounds of the model.  Inputs are the byte strings of at most MaxLen     *)
(* bytes over NumSyms byte values, and, for LZW, inputs of                 *)
(* LongLen + 0..LongTail bytes in which no two-byte sequence repeats.  A   *)
(* compressor instance gets up to MaxCalls compress calls.                 *)
(***************************************************************************)
NumSyms == 4

MaxLen == 4

LongLen == 3841

LongTail == 1

MaxCalls == 2

\* The bits one compress call of the arithmetic coder may emit before the
\* model stops following it.
MaxEmitted == 24

Sym(i) == (7 + 79 * i) % 256

Alphabet == {Sym(i) : i \in 0..(NumSyms - 1)}

Inputs == UNION {[1..n -> Alphabet] : n \in 0..MaxLen}

\* What a later call on an instance already used is given.
LaterInputs == {<<>>, <<Sym(0)>>, <<Sym(0), Sym(1)>>}

\* 256-byte blocks 0, d, 2d, ... (mod 256) for d = 1, 3, 5, ...: every two
\* consecutive bytes differ by the block's d, so no pair occurs twice.
LongInput(n) == [k \in 1..n |-> (((k - 1) % 256) * (2 * ((k - 1) \div 256) + 1)) % 256]

Pow2(n) == 2 ^ n

(***************************************************************************)
(* LZWCompressor (src/src/algorithms/lzw.py)                               *)
(***************************************************************************)
max_dict_size == 4096

code_size == 12

\* The input that fills the dictionary with pairs and then ends in a byte
\* three times over: the last free code is emitted right after it is assigned.
LongSelfReferential ==
    LongInput(max_dict_size - 256)
        \o <<LongInput(max_dict_size - 256)[max_dict_size - 256],
             LongInput(max_dict_size - 256)[max_dict_size - 256]>>

LongInputs == {LongInput(LongLen + t) : t \in 0..LongTail} \cup {LongSelfReferential}

InitializeDictionary == [s \in {<<b>> : b \in 0..255} |-> s[1]]

InitializeReverseDictionary == [c \in 0..255 |-> <<c>>]

\* A compress call before it starts.  i is Python's loop index (data[i] is
\* data[i + 1] here); j counts the codes _codes_to_bytes has packed.
LZWEncIdle ==
    [pc |-> "idle", data |-> <<>>, i |-> 0, dictionary |-> <<>>, next_code |-> 0,
     compressed_codes |-> <<>>, current_sequence |-> <<>>, j |-> 0,
     bit_buffer |-> 0, bits_in_buffer |-> 0, result |-> <<>>,
     compressed_data |-> <<>>, metadata |-> <<>>, error |-> "none"]

\* compress, lines 39-48
LZWCompressEnter(data) ==
    IF data = <<>>
    THEN [LZWEncIdle EXCEPT !.pc = "returned", !.data = data,
                            !.metadata = [compressed_codes |-> <<>>]]
    ELSE [LZWEncIdle EXCEPT !.pc = "loop", !.data = data, !.i = 1,
                            !.dictionary = InitializeDictionary,
                            !.next_code = 256,
                            !.current_sequence = <<data[1]>>]

\* Variant: the dictionary grows without the test of line 61.
LZWAddToDictionary_NoCap(dictionary, next_code, test_sequence) ==
    [dictionary |-> dictionary @@ (test_sequence :> next_code),
     next_code |-> next_code + 1]

\* Variant: once the dictionary is full, the new sequence takes the last code.
LZWAddToDictionary_Overwrite(dictionary, next_code, test_sequence) ==
    IF next_code < max_dict_size
    THEN [dictionary |-> dictionary @@ (test_sequence :> next_code),
          next_code |-> next_code + 1]
    ELSE [dictionary |-> (test_sequence :> (max_dict_size - 1)) @@ dictionary,
          next_code |-> next_code]

\* compress, lines 60-63
LZWAddToDictionary(dictionary, next_code, test_sequence) ==
    IF next_code < max_dict_size
    THEN [dictionary |-> dictionary @@ (test_sequence :> next_code),
          next_code |-> next_code + 1]
    ELSE [dictionary |-> dictionary, next_code |-> next_code]

\* Variant: the current sequence is never extended, each byte is emitted
\* as its own code.
LZWCompressIter_NoExtend(f) ==
    LET next_byte == <<f.data[f.i + 1]>>
        test_sequence == f.current_sequence \o next_byte
        added == LZWAddToDictionary(f.dictionary, f.next_code, test_sequence)
    IN  [f EXCEPT !.compressed_codes = Append(@, f.dictionary[f.current_sequence]),
                  !.dictionary = added.dictionary,
                  !.next_code = added.next_code,
                  !.current_sequence = next_byte,
                  !.i = @ + 1]

\* compress, one iteration of the loop of lines 50-65
LZWCompressIter(f) ==
    LET next_byte == <<f.data[f.i + 1]>>
        test_sequence == f.current_sequence \o next_byte
        added == LZWAddToDictionary(f.dictionary, f.next_code, test_sequence)
    IN  IF test_sequence \in DOMAIN f.dictionary
        THEN [f EXCEPT !.current_sequence = test_sequence, !.i = @ + 1]
        ELSE [f EXCEPT !.compressed_codes = Append(@, f.dictionary[f.current_sequence]),
                       !.dictionary = added.dictionary,
                       !.next_code = added.next_code,
                       !.current_sequence = next_byte,
                       !.i = @ + 1]

\* compress, lines 67-68, and the entry of _codes_to_bytes, lines 83-89
LZWCompressLast(f) ==
    [f EXCEPT !.pc = "pack",
              !.compressed_codes = Append(@, f.dictionary[f.current_sequence]),
              !.j = 0, !.bit_buffer = 0, !.bits_in_buffer = 0, !.result = <<>>]

\* _codes_to_bytes, the inner loop of lines 97-100
RECURSIVE LZWExtractBytes(_)
LZWExtractBytes(b) ==
    IF b.bits_in_buffer >= 8
    THEN LZWExtractBytes(
            [result |-> Append(b.result,
                               (b.bit_buffer \div Pow2(b.bits_in_buffer - 8)) % 256),
             bits_in_buffer |-> b.bits_in_buffer - 8,
             bit_buffer |-> b.bit_buffer % Pow2(b.bits_in_buffer - 8)])
    ELSE b

\* _codes_to_bytes, one iteration of the loop of lines 91-100
LZWPackCode(f) ==
    LET code == f.compressed_codes[f.j + 1]
        b == LZWExtractBytes([result |-> f.result,
                              bit_buffer |-> f.bit_buffer * Pow2(code_size) + code,
                              bits_in_buffer |-> f.bits_in_buffer + code_size])
    IN  [f EXCEPT !.j = @ + 1, !.result = b.result,
                  !.bit_buffer = b.bit_buffer,
                  !.bits_in_buffer = b.bits_in_buffer]

\* Variant: the bits left in the buffer after the last code are dropped.
LZWCompressReturn_NoTail(f) ==
    [f EXCEPT !.pc = "returned",
              !.compressed_data = f.result,
              !.metadata = [compressed_codes |-> f.compressed_codes,
                            code_size |-> code_size,
                            max_dict_size |-> max_dict_size]]

\* _codes_to_bytes, lines 102-106, and compress, lines 71-79
LZWCompressReturn(f) ==
    [f EXCEPT !.pc = "returned",
              !.compressed_data =
                  IF f.bits_in_buffer > 0
                  THEN Append(f.result,
                              (f.bit_buffer * Pow2(8 - f.bits_in_buffer)) % 256)
                  ELSE f.result,
              !.metadata = [compressed_codes |-> f.compressed_codes,
                            code_size |-> code_size,
                            max_dict_size |-> max_dict_size]]

\* One step of a compress call in progress.
LZWCompressStep(f) ==
    CASE f.pc = "loop" /\ f.i < Len(f.data) -> LZWCompressIter(f)
      [] f.pc = "loop" /\ f.i >= Len(f.data) -> LZWCompressLast(f)
      [] f.pc = "pack" /\ f.j < Len(f.compressed_codes) -> LZWPackCode(f)
      [] f.pc = "pack" /\ f.j >= Len(f.compressed_codes) -> LZWCompressReturn(f)
      [] OTHER -> f

\* The whole call: the frame in which compress returns.
RECURSIVE LZWCompressRun(_)
LZWCompressRun(f) ==
    IF f.pc = "returned" THEN f ELSE LZWCompressRun(LZWCompressStep(f))

LZWCompress(data) == LZWCompressRun(LZWCompressEnter(data))

\* _bytes_to_codes, the inner loop of lines 125-129
RECURSIVE LZWExtractCodes(_, _)
LZWExtractCodes(b, num_codes) ==
    IF b.bits_in_buffer >= code_size /\ Len(b.codes) < num_codes
    THEN LZWExtractCodes(
            [codes |-> Append(b.codes,
                              (b.bit_buffer \div Pow2(b.bits_in_buffer - code_size))
                                  % Pow2(code_size)),
             bits_in_buffer |-> b.bits_in_buffer - code_size,
             bit_buffer |-> b.bit_buffer % Pow2(b.bits_in_buffer - code_size),
             byte_index |-> b.byte_index],
            num_codes)
    ELSE b

\* A _bytes_to_codes call before it starts; byte_index counts the bytes read.
LZWUnpackIdle ==
    [pc |-> "idle", data |-> <<>>, num_codes |-> 0, codes |-> <<>>,
     bit_buffer |-> 0, bits_in_buffer |-> 0, byte_index |-> 0]

\* _bytes_to_codes, lines 110-116
LZWBytesToCodesEnter(data, num_codes) ==
    IF data = <<>>
    THEN [LZWUnpackIdle EXCEPT !.pc = "returned", !.data = data,
                               !.num_codes = num_codes]
    ELSE [LZWUnpackIdle EXCEPT !.pc = "loop", !.data = data,
                               !.num_codes = num_codes]

\* _bytes_to_codes, the test of line 118
LZWBytesToCodesMore(f) ==
    Len(f.codes) < f.num_codes /\ f.byte_index < Len(f.data)

\* _bytes_to_codes, one iteration of the loop of lines 118-129
LZWBytesToCodesIter(f) ==
    LET b == LZWExtractCodes([codes |-> f.codes,
                              bit_buffer |-> f.bit_buffer * 256 + f.data[f.byte_index + 1],
                              bits_in_buffer |-> f.bits_in_buffer + 8,
                              byte_index |-> f.byte_index + 1],
                             f.num_codes)
    IN  [f EXCEPT !.codes = b.codes, !.bit_buffer = b.bit_buffer,
                  !.bits_in_buffer = b.bits_in_buffer,
                  !.byte_index = b.byte_index]

\* _bytes_to_codes, line 131
LZWBytesToCodesReturn(f) == [f EXCEPT !.pc = "returned"]

\* A decompress call before it starts.  i is Python's loop index.
LZWDecIdle ==
    [pc |-> "idle", compressed_data |-> <<>>, metadata |-> <<>>,
     compressed_codes |-> <<>>, reverse_dict |-> <<>>, next_code |-> 0,
     result |-> <<>>, prev_sequence |-> <<>>, i |-> 0, taken |-> "none",
     error |-> "none"]

\* Variant: the decoder numbers its new entries from 257.
LZWDecompressEnter_From257(compressed_data, metadata) ==
    LET f == [LZWDecIdle EXCEPT !.compressed_data = compressed_data,
                                !.metadata = metadata]
    IN  IF compressed_data = <<>>
        THEN [f EXCEPT !.pc = "returned"]
        ELSE IF "compressed_codes" \notin DOMAIN metadata
        THEN [f EXCEPT !.pc = "raised", !.error = "KeyError"]
        ELSE IF metadata.compressed_codes = <<>>
        THEN [f EXCEPT !.pc = "raised", !.error = "IndexError"]
        ELSE IF metadata.compressed_codes[1] \notin DOMAIN InitializeReverseDictionary
        THEN [f EXCEPT !.pc = "raised", !.error = "KeyError"]
        ELSE [f EXCEPT !.pc = "loop",
                       !.compressed_codes = metadata.compressed_codes,
                       !.reverse_dict = InitializeReverseDictionary,
                       !.next_code = 257,
                       !.prev_sequence =
                           InitializeReverseDictionary[metadata.compressed_codes[1]],
                       !.result =
                           InitializeReverseDictionary[metadata.compressed_codes[1]],
                       !.i = 1]

\* decompress, lines 144-156
LZWDecompressEnter(compressed_data, metadata) ==
    LET f == [LZWDecIdle EXCEPT !.compressed_data = compressed_data,
                                !.metadata = metadata]
    IN  IF compressed_data = <<>>
        THEN [f EXCEPT !.pc = "returned"]
        ELSE IF "compressed_codes" \notin DOMAIN metadata
        THEN [f EXCEPT !.pc = "raised", !.error = "KeyError"]
        ELSE IF metadata.compressed_codes = <<>>
        THEN [f EXCEPT !.pc = "raised", !.error = "IndexError"]
        ELSE IF metadata.compressed_codes[1] \notin DOMAIN InitializeReverseDictionary
        THEN [f EXCEPT !.pc = "raised", !.error = "KeyError"]
        ELSE [f EXCEPT !.pc = "loop",
                       !.compressed_codes = metadata.compressed_codes,
                       !.reverse_dict = InitializeReverseDictionary,
                       !.next_code = 256,
                       !.prev_sequence =
                           InitializeReverseDictionary[metadata.compressed_codes[1]],
                       !.result =
                           InitializeReverseDictionary[metadata.compressed_codes[1]],
                       !.i = 1]

\* Variant: a code not yet in the dictionary decodes to the previous
\* sequence, without its first byte appended.
LZWCurrentSequence_NoSelf(reverse_dict, code, prev_sequence) ==
    IF code \in DOMAIN reverse_dict
    THEN reverse_dict[code]
    ELSE prev_sequence

\* decompress, lines 161-165
LZWCurrentSequence(reverse_dict, code, prev_sequence) ==
    IF code \in DOMAIN reverse_dict
    THEN reverse_dict[code]
    ELSE Append(prev_sequence, prev_sequence[1])

\* Variant: the new entry is the current sequence followed by the first byte
\* of the previous one.
LZWDecompressIter_Swapped(f) ==
    LET code == f.compressed_codes[f.i + 1]
        current_sequence == LZWCurrentSequence(f.reverse_dict, code, f.prev_sequence)
    IN  [f EXCEPT !.taken = IF code \in DOMAIN f.reverse_dict
                            THEN "in_dict" ELSE "not_in_dict",
                  !.result = @ \o current_sequence,
                  !.reverse_dict =
                      IF f.next_code < max_dict_size
                      THEN @ @@ (f.next_code :>
                                   Append(current_sequence, f.prev_sequence[1]))
                      ELSE @,
                  !.next_code = IF f.next_code < max_dict_size THEN @ + 1 ELSE @,
                  !.prev_sequence = current_sequence,
                  !.i = @ + 1]

\* decompress, one iteration of the loop of lines 158-175
LZWDecompressIter(f) ==
    LET code == f.compressed_codes[f.i + 1]
        current_sequence == LZWCurrentSequence(f.reverse_dict, code, f.prev_sequence)
    IN  [f EXCEPT !.taken = IF code \in DOMAIN f.reverse_dict
                            THEN "in_dict" ELSE "not_in_dict",
                  !.result = @ \o current_sequence,
                  !.reverse_dict =
                      IF f.next_code < max_dict_size
                      THEN @ @@ (f.next_code :>
                                   Append(f.prev_sequence, current_sequence[1]))
                      ELSE @,
                  !.next_code = IF f.next_code < max_dict_size THEN @ + 1 ELSE @,
                  !.prev_sequence = current_sequence,
                  !.i = @ + 1]

\* decompress, line 177
LZWDecompressReturn(f) == [f EXCEPT !.pc = "returned"]

\* One step of a decompress call in progress.
LZWDecompressStep(f) ==
    CASE f.pc = "loop" /\ f.i < Len(f.compressed_codes) -> LZWDecompressIter(f)
      [] f.pc = "loop" /\ f.i >= Len(f.compressed_codes) -> LZWDecompressReturn(f)
      [] OTHER -> f

RECURSIVE LZWDecompressRun(_)
LZWDecompressRun(f) ==
    IF f.pc \in {"returned", "raised"} THEN f
    ELSE LZWDecompressRun(LZWDecompressStep(f))

LZWDecompress(compressed_data, metadata) ==
    LZWDecompressRun(LZWDecompressEnter(compressed_data, metadata))

(***************************************************************************)
(* ArithmeticCompressor (src/src/algorithms/arithmetic.py)                 *)
(*                                                                         *)
(* precision is the constructor's argument.  Python's integers are         *)
(* unbounded; the model runs the coder at a narrower width so that         *)
(* range_size * total_freq stays inside the checker's integers and an      *)
(* input longer than the interval is wide stays short.                     *)
(***************************************************************************)
precision == 10

max_value == Pow2(precision) - 1

half == Pow2(precision - 1)

quarter == Pow2(precision - 2)

\* The attributes _emit_bit and _bits_to_bytes keep on the instance.  A fresh
\* instance has none of them: has_bit_buffer says that _bit_buffer,
\* _bits_in_buffer and _pending_bits exist (line 116 creates the three
\* together), has_output_bytes that _output_bytes exists (line 132).
ArithFresh ==
    [has_bit_buffer |-> FALSE, bit_buffer |-> 0, bits_in_buffer |-> 0,
     pending_bits |-> 0, has_output_bytes |-> FALSE, output_bytes |-> <<>>]

\* An input with more bytes than the interval has points: the smallest
\* symbol once, then max_value + 1 bytes of the next.
ArithLongInput == [k \in 1..(max_value + 2) |-> IF k = 1 THEN Sym(0) ELSE Sym(1)]

RECURSIVE SortedSeq(_)
SortedSeq(S) ==
    IF S = {} THEN <<>>
    ELSE LET m == CHOOSE x \in S : \A y \in S : x <= y
         IN  <<m>> \o SortedSeq(S \ {m})

ArithBuildFrequencyTable(data) ==
    [b \in {data[k] : k \in 1..Len(data)} |->
        Cardinality({k \in 1..Len(data) : data[k] = b})]

\* Variant: each entry includes the symbol's own count.
RECURSIVE ArithCumulativeLoop_Inclusive(_, _, _, _)
ArithCumulativeLoop_Inclusive(sorted_chars, freq_table, cumulative, total) ==
    IF sorted_chars = <<>>
    THEN [cumulative |-> cumulative, total |-> total]
    ELSE LET char == Head(sorted_chars)
         IN  ArithCumulativeLoop_Inclusive(Tail(sorted_chars), freq_table,
                 cumulative @@ (char :> total + freq_table[char]),
                 total + freq_table[char])

\* _build_cumulative_freq, the loop of lines 32-34
RECURSIVE ArithCumulativeLoop(_, _, _, _)
ArithCumulativeLoop(sorted_chars, freq_table, cumulative, total) ==
    IF sorted_chars = <<>>
    THEN [cumulative |-> cumulative, total |-> total]
    ELSE LET char == Head(sorted_chars)
         IN  ArithCumulativeLoop(Tail(sorted_chars), freq_table,
                                 cumulative @@ (char :> total),
                                 total + freq_table[char])

ArithBuildCumulativeFreq(freq_table) ==
    ArithCumulativeLoop(SortedSeq(DOMAIN freq_table), freq_table, <<>>, 0)

\* _emit_bit, the loop of lines 125-128
RECURSIVE ArithEmitPending(_, _)
ArithEmitPending(self, bit) ==
    IF self.pending_bits > 0
    THEN ArithEmitPending([self EXCEPT !.bit_buffer = 2 * @ + (1 - bit),
                                       !.bits_in_buffer = @ + 1,
                                       !.pending_bits = @ - 1], bit)
    ELSE self

\* _emit_bit, lines 131-136: one byte at most leaves the buffer, and
\* bytearray.append raises ValueError for a value above 255.
ArithEmitByte(self) ==
    IF self.bits_in_buffer >= 8
    THEN LET s == [self EXCEPT !.has_output_bytes = TRUE,
                               !.output_bytes = IF self.has_output_bytes
                                                THEN @ ELSE <<>>]
             byte == s.bit_buffer \div Pow2(s.bits_in_buffer - 8)
         IN  IF byte > 255
             THEN [self |-> s, error |-> "ValueError"]
             ELSE [self |-> [s EXCEPT !.output_bytes = Append(@, byte),
                                      !.bits_in_buffer = @ - 8,
                                      !.bit_buffer = @ % Pow2(s.bits_in_buffer - 8)],
                   error |-> "none"]
    ELSE [self |-> self, error |-> "none"]

\* _emit_bit, lines 114-136
ArithEmitBit(self, bit) ==
    LET s0 == IF self.has_bit_buffer THEN self
              ELSE [self EXCEPT !.has_bit_buffer = TRUE, !.bit_buffer = 0,
                                !.bits_in_buffer = 0, !.pending_bits = 0]
        s1 == [s0 EXCEPT !.bit_buffer = 2 * @ + bit, !.bits_in_buffer = @ + 1]
    IN  ArithEmitByte(ArithEmitPending(s1, bit))

\* _bits_to_bytes, lines 138-147: a shift by a negative count raises
\* ValueError, and so does appending a value above 255.
ArithBitsToBytes(self) ==
    IF ~self.has_output_bytes
    THEN [self |-> self, bytes |-> <<>>, error |-> "none"]
    ELSE IF self.bits_in_buffer > 0
    THEN IF self.bits_in_buffer > 8
            \/ self.bit_buffer * Pow2(8 - self.bits_in_buffer) > 255
         THEN [self |-> self, bytes |-> <<>>, error |-> "ValueError"]
         ELSE LET s == [self EXCEPT !.output_bytes =
                           Append(@, self.bit_buffer * Pow2(8 - self.bits_in_buffer))]
              IN  [self |-> s, bytes |-> s.output_bytes, error |-> "none"]
    ELSE [self |-> self, bytes |-> self.output_bytes, error |-> "none"]

\* A compress call before it starts, on an instance with attributes self.
\* i counts the bytes of data already encoded.  emitted and trail record the
\* call's history: the bits _emit_bit has put out, in order, and (low, high)
\* as each byte's renormalisation ended.
ArithEncIdle(self) ==
    [pc |-> "idle", self |-> self, data |-> <<>>, freq_table |-> <<>>,
     total_symbols |-> 0, cumulative_freq |-> <<>>, total_freq |-> 0,
     low |-> 0, high |-> 0, i |-> 0, last_case |-> "none",
     emitted |-> <<>>, trail |-> <<>>,
     compressed_data |-> <<>>, metadata |-> <<>>, error |-> "none"]

\* Variant: no early return for empty data.
ArithCompressEnter_NoEmptyCheck(self, data) ==
    [ArithEncIdle(self) EXCEPT
         !.pc = "symbol", !.data = data,
         !.freq_table = ArithBuildFrequencyTable(data),
         !.total_symbols = Len(data),
         !.cumulative_freq =
             ArithBuildCumulativeFreq(ArithBuildFrequencyTable(data)).cumulative,
         !.total_freq = ArithBuildCumulativeFreq(ArithBuildFrequencyTable(data)).total,
         !.low = 0, !.high = max_value]

\* compress, lines 52-67
ArithCompressEnter(self, data) ==
    IF data = <<>>
    THEN [ArithEncIdle(self) EXCEPT
              !.pc = "returned",
              !.metadata = [freq_table |-> <<>>, total_symbols |-> 0]]
    ELSE LET freq_table == ArithBuildFrequencyTable(data)
             cum == ArithBuildCumulativeFreq(freq_table)
         IN  [ArithEncIdle(self) EXCEPT
                  !.pc = "symbol", !.data = data, !.freq_table = freq_table,
                  !.total_symbols = Len(data),
                  !.cumulative_freq = cum.cumulative, !.total_freq = cum.total,
                  !.low = 0, !.high = max_value]

\* compress and decompress, the new range of lines 72-74 and 205-206
ArithCharLow(low, high, cum, total_freq) ==
    low + ((high - low + 1) * cum) \div total_freq

ArithCharHigh(low, high, cum, freq, total_freq) ==
    low + ((high - low + 1) * (cum + freq)) \div total_freq - 1

\* compress, lines 70-77: the interval narrows to the next byte's share
ArithCompressNarrow(f) ==
    LET byte == f.data[f.i + 1]
    IN  [f EXCEPT !.pc = "renorm",
                  !.low = ArithCharLow(f.low, f.high, f.cumulative_freq[byte],
                                       f.total_freq),
                  !.high = ArithCharHigh(f.low, f.high, f.cumulative_freq[byte],
                                         f.freq_table[byte], f.total_freq)]

\* _emit_bit, lines 121-128: the bits one call puts into the buffer, bit and
\* then the opposite bit once for each pending bit
ArithEmitted(self, bit) ==
    <<bit>> \o [k \in 1..(IF self.has_bit_buffer THEN self.pending_bits ELSE 0) |->
                   1 - bit]

\* compress, lines 81-85 and 86-90: a definite bit leaves, the interval doubles
ArithCompressShift(f, bit) ==
    LET e == ArithEmitBit(f.self, bit)
        off == IF bit = 1 THEN half ELSE 0
    IN  IF e.error # "none"
        THEN [f EXCEPT !.pc = "raised", !.self = e.self, !.error = e.error]
        ELSE [f EXCEPT !.self = e.self,
                       !.emitted = @ \o ArithEmitted(f.self, bit),
                       !.last_case = IF bit = 1 THEN "upper" ELSE "lower",
                       !.low = 2 * (f.low - off),
                       !.high = 2 * (f.high - off) + 1]

\* compress, lines 91-95: reading _pending_bits raises AttributeError on an
\* instance on which _emit_bit has never run
ArithCompressMiddle(f) ==
    IF ~f.self.has_bit_buffer
    THEN [f EXCEPT !.pc = "raised", !.error = "AttributeError"]
    ELSE [f EXCEPT !.self.pending_bits = @ + 1,
                   !.last_case = "middle",
                   !.low = 2 * (f.low - quarter),
                   !.high = 2 * (f.high - quarter) + 1]

\* compress, one iteration of the loop of lines 80-97
ArithCompressRenorm(f) ==
    IF f.high < half THEN ArithCompressShift(f, 0)
    ELSE IF f.low >= half THEN ArithCompressShift(f, 1)
    ELSE IF f.low >= quarter /\ f.high < 3 * quarter THEN ArithCompressMiddle(f)
    ELSE [f EXCEPT !.pc = "symbol", !.i = @ + 1, !.last_case = "none",
                   !.trail = Append(@, <<f.low, f.high>>)]

\* compress, lines 99-100
ArithCompressFlush(f) ==
    LET e == ArithEmitBit(f.self, 1)
    IN  IF e.error # "none"
        THEN [f EXCEPT !.pc = "raised", !.self = e.self, !.error = e.error]
        ELSE [f EXCEPT !.pc = "to_bytes", !.self = e.self,
                       !.emitted = @ \o ArithEmitted(f.self, 1)]

\* compress, lines 102-112
ArithCompressReturn(f) ==
    LET b == ArithBitsToBytes(f.self)
    IN  IF b.error # "none"
        THEN [f EXCEPT !.pc = "raised", !.self = b.self, !.error = b.error]
        ELSE [f EXCEPT !.pc = "returned", !.self = b.self,
                       !.compressed_data = b.bytes,
                       !.metadata = [freq_table |-> f.freq_table,
                                     total_symbols |-> f.total_symbols,
                                     cumulative_freq |-> f.cumulative_freq,
                                     total_freq |-> f.total_freq]]

\* One step of a compress call in progress.
ArithCompressStep(f) ==
    CASE f.pc = "symbol" /\ f.i < Len(f.data) -> ArithCompressNarrow(f)
      [] f.pc = "symbol" /\ f.i >= Len(f.data) -> ArithCompressFlush(f)
      [] f.pc = "renorm" -> ArithCompressRenorm(f)
      [] f.pc = "to_bytes" -> ArithCompressReturn(f)
      [] OTHER -> f

\* The whole call: the frame in which compress returns or raises.
RECURSIVE ArithCompressRun(_)
ArithCompressRun(f) ==
    IF f.pc \in {"returned", "raised"} THEN f
    ELSE ArithCompressRun(ArithCompressStep(f))

ArithCompress(self, data) == ArithCompressRun(ArithCompressEnter(self, data))

\* _bytes_to_bits, lines 233-238: format(byte, '08b'), most significant first
ByteToBits(byte) == [k \in 1..8 |-> (byte \div Pow2(8 - k)) % 2]

RECURSIVE BytesToBits(_)
BytesToBits(data) ==
    IF data = <<>> THEN <<>>
    ELSE ByteToBits(Head(data)) \o BytesToBits(Tail(data))

\* decompress, lines 172-174
RECURSIVE ArithInitialValue(_, _, _)
ArithInitialValue(bits, i, value) ==
    IF i < (IF precision < Len(bits) THEN precision ELSE Len(bits))
    THEN ArithInitialValue(bits, i + 1, 2 * value + bits[i + 1])
    ELSE value

\* A decompress call before it starts.  n counts the symbols decoded.
ArithDecIdle ==
    [pc |-> "idle", compressed_data |-> <<>>, metadata |-> <<>>, bits |-> <<>>,
     value |-> 0, bit_index |-> 0, low |-> 0, high |-> 0, n |-> 0,
     result |-> <<>>, error |-> "none"]

\* decompress, lines 160-183
ArithDecompressEnter(compressed_data, metadata) ==
    LET f == [ArithDecIdle EXCEPT !.compressed_data = compressed_data,
                                  !.metadata = metadata]
    IN  IF compressed_data = <<>>
        THEN [f EXCEPT !.pc = "returned"]
        ELSE IF {"freq_table", "total_symbols", "cumulative_freq", "total_freq"}
                    \subseteq DOMAIN metadata
        THEN [f EXCEPT !.pc = "symbol",
                       !.bits = BytesToBits(compressed_data),
                       !.value = ArithInitialValue(BytesToBits(compressed_data), 0, 0),
                       !.bit_index = precision,
                       !.low = 0, !.high = max_value]
        ELSE [f EXCEPT !.pc = "raised", !.error = "KeyError"]

\* decompress, line 190
ArithTarget(value, low, high, total_freq) ==
    ((value - low + 1) * total_freq - 1) \div (high - low + 1)

\* decompress, lines 193-197: the first symbol, in the order of the
\* cumulative table, whose sub-range holds target; {} stands for None
ArithFindSymbol(cumulative_freq, freq_table, target) ==
    LET hits == {c \in DOMAIN cumulative_freq :
                    /\ cumulative_freq[c] <= target
                    /\ target < cumulative_freq[c] + freq_table[c]}
    IN  IF hits = {} THEN {} ELSE {Head(SortedSeq(hits))}

\* decompress, lines 185-209: one symbol is found and the interval narrows
ArithDecompressSymbol(f) ==
    LET m == f.metadata
        target == ArithTarget(f.value, f.low, f.high, m.total_freq)
        found == ArithFindSymbol(m.cumulative_freq, m.freq_table, target)
    IN  IF found = {}
        THEN [f EXCEPT !.pc = "returned"]
        ELSE LET symbol == CHOOSE c \in found : TRUE
             IN  [f EXCEPT !.pc = "renorm",
                           !.result = Append(@, symbol),
                           !.low = ArithCharLow(f.low, f.high,
                                                m.cumulative_freq[symbol],
                                                m.total_freq),
                           !.high = ArithCharHigh(f.low, f.high,
                                                  m.cumulative_freq[symbol],
                                                  m.freq_table[symbol],
                                                  m.total_freq)]

\* decompress, the next undecoded bit of lines 216, 221 and 226
ArithNextBit(bits, bit_index) ==
    IF bit_index < Len(bits) THEN bits[bit_index + 1] ELSE 0

\* decompress, one iteration of the loop of lines 212-229
ArithDecompressRenorm(f) ==
    LET off == IF f.high < half THEN 0
               ELSE IF f.low >= half THEN half
               ELSE quarter
    IN  IF \/ f.high < half
           \/ f.low >= half
           \/ (f.low >= quarter /\ f.high < 3 * quarter)
        THEN [f EXCEPT !.low = 2 * (f.low - off),
                       !.high = 2 * (f.high - off) + 1,
                       !.value = 2 * (f.value - off) + ArithNextBit(f.bits, f.bit_index),
                       !.bit_index = @ + 1]
        ELSE [f EXCEPT !.pc = "symbol", !.n = @ + 1]

\* decompress, line 231
ArithDecompressReturn(f) == [f EXCEPT !.pc = "returned"]

\* The metadata with symbol's entry missing from the cumulative table.
ArithWithoutSymbol(metadata, symbol) ==
    [metadata EXCEPT !.cumulative_freq =
        [c \in DOMAIN metadata.cumulative_freq \ {symbol} |->
            metadata.cumulative_freq[c]]]

\* One step of a decompress call in progress.
ArithDecompressStep(f) ==
    CASE f.pc = "symbol" /\ f.n < f.metadata.total_symbols -> ArithDecompressSymbol(f)
      [] f.pc = "symbol" /\ f.n >= f.metadata.total_symbols -> ArithDecompressReturn(f)
      [] f.pc = "renorm" -> ArithDecompressRenorm(f)
      [] OTHER -> f

RECURSIVE ArithDecompressRun(_)
ArithDecompressRun(f) ==
    IF f.pc \in {"returned", "raised"} THEN f
    ELSE ArithDecompressRun(ArithDecompressStep(f))

ArithDecompress(compressed_data, metadata) ==
    ArithDecompressRun(ArithDecompressEnter(compressed_data, metadata))

(***************************************************************************)
(* HuffmanCompressor (src/src/algorithms/huffman.py)                       *)
(*                                                                         *)
(* An attribute that may be None is a sequence of length 0 (None) or 1.    *)
(* A HuffmanNode is a record; the heap is Python's heapq on a list, with   *)
(* HuffmanNode.__lt__ as the order.                                        *)
(***************************************************************************)
None == <<>>

HuffmanNode(char, freq, left, right) ==
    [char |-> char, freq |-> freq, left |-> left, right |-> right]

\* HuffmanNode.__lt__, lines 19-20
HuffmanNodeLt(a, b) == a.freq < b.freq

\* heapq._siftdown(heap, startpos, pos), with newitem = heap[pos]
RECURSIVE HeapSiftDown(_, _, _, _)
HeapSiftDown(heap, startpos, pos, newitem) ==
    IF pos > startpos /\ HuffmanNodeLt(newitem, heap[((pos - 1) \div 2) + 1])
    THEN HeapSiftDown([heap EXCEPT ![pos + 1] = heap[((pos - 1) \div 2) + 1]],
                      startpos, (pos - 1) \div 2, newitem)
    ELSE [heap EXCEPT ![pos + 1] = newitem]

\* heapq.heappush, as called on line 47 and line 55
HeapPush(heap, item) == HeapSiftDown(Append(heap, item), 0, Len(heap), item)

\* heapq._siftup(heap, pos): the smaller child moves up until a leaf is hit
RECURSIVE HeapSiftUpLoop(_, _)
HeapSiftUpLoop(heap, pos) ==
    LET endpos == Len(heap)
        childpos == 2 * pos + 1
        rightpos == childpos + 1
        c == IF rightpos < endpos
                /\ ~HuffmanNodeLt(heap[childpos + 1], heap[rightpos + 1])
             THEN rightpos ELSE childpos
    IN  IF childpos < endpos
        THEN HeapSiftUpLoop([heap EXCEPT ![pos + 1] = heap[c + 1]], c)
        ELSE [heap |-> heap, pos |-> pos]

HeapSiftUp(heap, pos) ==
    LET newitem == heap[pos + 1]
        r == HeapSiftUpLoop(heap, pos)
    IN  HeapSiftDown(r.heap, pos, r.pos, newitem)

\* heapq.heappop, as called on lines 51-52
HeapPop(heap) ==
    LET lastelt == heap[Len(heap)]
        rest == SubSeq(heap, 1, Len(heap) - 1)
    IN  IF rest # <<>>
        THEN [item |-> rest[1], heap |-> HeapSiftUp([rest EXCEPT ![1] = lastelt], 0)]
        ELSE [item |-> lastelt, heap |-> rest]

\* The keys of Counter(data) in the order items() gives them: first occurrence.
RECURSIVE CounterKeys(_, _)
CounterKeys(data, seen) ==
    IF data = <<>> THEN seen
    ELSE CounterKeys(Tail(data),
                     IF \E k \in 1..Len(seen) : seen[k] = Head(data)
                     THEN seen ELSE Append(seen, Head(data)))

\* _build_frequency_table, lines 31-33
HuffBuildFrequencyTable(data) ==
    [keys |-> CounterKeys(data, <<>>),
     count |-> [b \in {data[k] : k \in 1..Len(data)} |->
                   Cardinality({k \in 1..Len(data) : data[k] = b})]]

\* _build_huffman_tree, the loop of lines 45-47
RECURSIVE HuffPushLeaves(_, _, _)
HuffPushLeaves(heap, keys, count) ==
    IF keys = <<>> THEN heap
    ELSE HuffPushLeaves(
            HeapPush(heap, HuffmanNode(<<Head(keys)>>, count[Head(keys)], None, None)),
            Tail(keys), count)

\* _build_huffman_tree, lines 51-55: the two lightest nodes become one
HuffMergeTwo(heap) ==
    LET l == HeapPop(heap)
        r == HeapPop(l.heap)
        merged == HuffmanNode(None, l.item.freq + r.item.freq, <<l.item>>, <<r.item>>)
    IN  HeapPush(r.heap, merged)

\* _build_huffman_tree, the loop of lines 50-57
RECURSIVE HuffMergeLoop(_)
HuffMergeLoop(heap) ==
    IF Len(heap) > 1 THEN HuffMergeLoop(HuffMergeTwo(heap)) ELSE heap[1]

\* _build_huffman_tree, lines 35-57
HuffBuildTree(freq_table) ==
    IF Len(freq_table.keys) = 1
    THEN HuffmanNode(<<freq_table.keys[1]>>, freq_table.count[freq_table.keys[1]],
                     None, None)
    ELSE HuffMergeLoop(HuffPushLeaves(<<>>, freq_table.keys, freq_table.count))

\* Variant: a leaf keeps the code it was reached with, empty or not.
HuffLeafCode_AsReached(code) == code

\* _generate_codes, line 65: a leaf reached with no code gets "0"
HuffLeafCode(code) == IF code # <<>> THEN code ELSE <<0>>

\* _generate_codes, lines 59-73; dict.update lets the later entry win
RECURSIVE HuffGenerateCodes(_, _)
HuffGenerateCodes(root, code) ==
    IF root.char # None
    THEN (root.char[1] :> HuffLeafCode(code))
    ELSE LET c1 == IF root.left # None
                   THEN HuffGenerateCodes(root.left[1], Append(code, 0))
                   ELSE <<>>
             c2 == IF root.right # None
                   THEN HuffGenerateCodes(root.right[1], Append(code, 1))
                   ELSE <<>>
         IN  c2 @@ c1

\* _encode_data, lines 75-80
RECURSIVE HuffEncodeData(_, _)
HuffEncodeData(data, codes) ==
    IF data = <<>> THEN <<>>
    ELSE codes[Head(data)] \o HuffEncodeData(Tail(data), codes)

\* int(byte_bits, 2) on eight bits
BitsToByte(bits) ==
    bits[1] * 128 + bits[2] * 64 + bits[3] * 32 + bits[4] * 16
        + bits[5] * 8 + bits[6] * 4 + bits[7] * 2 + bits[8]

\* Variant: a bit string of whole bytes gets a byte of padding.
HuffPadding_Eight(n) == 8 - (n % 8)

\* (8 - len(bits) % 8) % 8, lines 85 and 136
HuffPadding(n) == (8 - (n % 8)) % 8

\* _bits_to_bytes, lines 82-94
HuffBitsToBytes(bits) ==
    LET padded == bits \o [k \in 1..HuffPadding(Len(bits)) |-> 0]
    IN  [k \in 1..(Len(padded) \div 8) |->
            BitsToByte(SubSeq(padded, 8 * (k - 1) + 1, 8 * k))]

\* The attributes of a HuffmanCompressor, lines 28-29
HuffFresh == [huffman_codes |-> <<>>, reverse_codes |-> <<>>]

\* {v: k for k, v in codes.items()}, lines 127 and 164
HuffReverseCodes(codes) ==
    [c \in {codes[k] : k \in DOMAIN codes} |->
        CHOOSE k \in DOMAIN codes : codes[k] = c]

\* Variant: for an empty input the metadata carries the codes the instance
\* kept from the call before.
HuffCompress_StaleCodes(self, data) ==
    IF data = <<>>
    THEN [self |-> self, pc |-> "returned", data |-> data, error |-> "none",
          compressed_data |-> <<>>,
          metadata |-> [huffman_codes |-> self.huffman_codes,
                        original_length |-> 0, padding |-> 0]]
    ELSE LET freq_table == HuffBuildFrequencyTable(data)
             root == HuffBuildTree(freq_table)
             codes == HuffGenerateCodes(root, <<>>)
             encoded_bits == HuffEncodeData(data, codes)
         IN  [self |-> [huffman_codes |-> codes,
                        reverse_codes |-> HuffReverseCodes(codes)],
              pc |-> "returned", data |-> data, error |-> "none",
              compressed_data |-> HuffBitsToBytes(encoded_bits),
              metadata |-> [huffman_codes |-> codes,
                            original_length |-> Len(encoded_bits),
                            padding |-> HuffPadding(Len(encoded_bits))]]

\* compress, lines 105-144: the attributes it leaves and what it returns
HuffCompress(self, data) ==
    IF data = <<>>
    THEN [self |-> self, pc |-> "returned", data |-> data, error |-> "none",
          compressed_data |-> <<>>,
          metadata |-> [huffman_codes |-> <<>>, original_length |-> 0,
                        padding |-> 0]]
    ELSE LET freq_table == HuffBuildFrequencyTable(data)
             root == HuffBuildTree(freq_table)
             codes == HuffGenerateCodes(root, <<>>)
             encoded_bits == HuffEncodeData(data, codes)
         IN  [self |-> [huffman_codes |-> codes,
                        reverse_codes |-> HuffReverseCodes(codes)],
              pc |-> "returned", data |-> data, error |-> "none",
              compressed_data |-> HuffBitsToBytes(encoded_bits),
              metadata |-> [huffman_codes |-> codes,
                            original_length |-> Len(encoded_bits),
                            padding |-> HuffPadding(Len(encoded_bits))]]

\* Variant: the padding bits are not cut off.
HuffBytesToBits_Padded(data, original_length) == BytesToBits(data)

\* _bytes_to_bits, lines 96-103: a slice stops at the end of the string
HuffBytesToBits(data, original_length) ==
    LET bits == BytesToBits(data)
    IN  SubSeq(bits, 1, IF original_length < Len(bits)
                        THEN original_length ELSE Len(bits))

\* decompress, the loop of lines 173-177
RECURSIVE HuffDecodeLoop(_, _, _, _)
HuffDecodeLoop(bits, reverse_codes, current_code, decoded_data) ==
    IF bits = <<>> THEN [decoded_data |-> decoded_data, current_code |-> current_code]
    ELSE LET code == Append(current_code, Head(bits))
         IN  IF code \in DOMAIN reverse_codes
             THEN HuffDecodeLoop(Tail(bits), reverse_codes, <<>>,
                                 Append(decoded_data, reverse_codes[code]))
             ELSE HuffDecodeLoop(Tail(bits), reverse_codes, code, decoded_data)

\* decompress, lines 146-179
HuffDecompress(compressed_data, metadata) ==
    IF compressed_data = <<>>
    THEN [pc |-> "returned", result |-> <<>>, error |-> "none"]
    ELSE IF ~({"huffman_codes", "original_length"} \subseteq DOMAIN metadata)
    THEN [pc |-> "raised", result |-> <<>>, error |-> "KeyError"]
    ELSE LET bits == HuffBytesToBits(compressed_data, metadata.original_length)
             d == HuffDecodeLoop(bits, HuffReverseCodes(metadata.huffman_codes),
                                 <<>>, <<>>)
         IN  [pc |-> "returned", result |-> d.decoded_data, error |-> "none"]

(***************************************************************************)
(* BaseCompressor (src/src/algorithms/base_compressor.py)                  *)
(*                                                                         *)
(* A codec instance is [algo, self, compression_stats]: self holds the     *)
(* attributes the codec keeps besides compression_stats.  A str dict key   *)
(* is a sequence of one-character strings.                                 *)
(***************************************************************************)
Algorithms == {"huffman", "lzw", "arithmetic"}

NewInstance(algo) ==
    [algo |-> algo,
     self |-> IF algo = "huffman" THEN HuffFresh
              ELSE IF algo = "arithmetic" THEN ArithFresh
              ELSE <<>>,
     compression_stats |-> <<>>]

\* self.compress(data): the frame in which the call returns or raises
CodecCompress(algo, self, data) ==
    IF algo = "huffman" THEN HuffCompress(self, data)
    ELSE IF algo = "arithmetic" THEN ArithCompress(self, data)
    ELSE LZWCompress(data)

\* The instance after its compress call ended in frame r.
InstanceAfter(instance, r) ==
    IF instance.algo = "lzw" THEN instance ELSE [instance EXCEPT !.self = r.self]

\* self.decompress(compressed_data, metadata)
CodecDecompress(algo, compressed_data, metadata) ==
    IF algo = "huffman" THEN HuffDecompress(compressed_data, metadata)
    ELSE IF algo = "arithmetic" THEN ArithDecompress(compressed_data, metadata)
    ELSE LZWDecompress(compressed_data, metadata)

Digits == <<"0", "1", "2", "3", "4", "5", "6", "7", "8", "9">>

\* str(n) for n >= 0, the key json.dump writes for an int key
RECURSIVE IntToStr(_)
IntToStr(n) ==
    IF n < 10 THEN <<Digits[n + 1]>>
    ELSE Append(IntToStr(n \div 10), Digits[(n % 10) + 1])

\* key.isdigit(), line 150
StrIsDigit(key) ==
    /\ key # <<>>
    /\ \A k \in 1..Len(key) : \E d \in 1..10 : Digits[d] = key[k]

DigitValue(ch) == (CHOOSE d \in 1..10 : Digits[d] = ch) - 1

\* int(key), line 152
RECURSIVE StrToInt(_)
StrToInt(key) ==
    IF key = <<>> THEN 0
    ELSE 10 * StrToInt(SubSeq(key, 1, Len(key) - 1)) + DigitValue(key[Len(key)])

\* The metadata fields that hold a dict keyed by byte values.
DictFields == {"huffman_codes", "freq_table", "cumulative_freq"}

\* json.load(json.dump(d)) of a dict keyed by ints: the keys come back as str
JsonDictRoundTrip(d) ==
    [key \in {IntToStr(k) : k \in DOMAIN d} |->
        d[CHOOSE k \in DOMAIN d : IntToStr(k) = key]]

\* json.load(json.dump(metadata)), lines 74-75 and 115-116
JsonRoundTrip(metadata) ==
    [field \in DOMAIN metadata |->
        IF field \in DictFields THEN JsonDictRoundTrip(metadata[field])
        ELSE metadata[field]]

FixKey(key) == IF StrIsDigit(key) THEN StrToInt(key) ELSE key

\* _fix_json_keys on a dict whose values are ints or strs, lines 145-156
FixJsonDictKeys(d) ==
    [key \in {FixKey(k) : k \in DOMAIN d} |->
        d[CHOOSE k \in DOMAIN d : FixKey(k) = key]]

\* _fix_json_keys on a loaded metadata record, lines 143-160: its own keys
\* are field names, which are not digit strings
FixJsonKeys(doc) ==
    [field \in DOMAIN doc |->
        IF field \in DictFields THEN FixJsonDictKeys(doc[field])
        ELSE doc[field]]

MetadataPath(path) == path \o ".metadata.json"

\* compress_file, lines 66-93, after self.compress ended in frame r.  The
\* timing and the ratio of the statistics are left out.
CompressFileWrite(instance, files, output_path, original_data, r) ==
    IF r.pc = "raised"
    THEN [inst |-> InstanceAfter(instance, r), fs |-> files,
          pc |-> "raised", error |-> r.error]
    ELSE [inst |-> [InstanceAfter(instance, r) EXCEPT !.compression_stats =
                       [algorithm |-> instance.algo,
                        original_size |-> Len(original_data),
                        compressed_size |-> Len(r.compressed_data),
                        space_saved |-> Len(original_data) - Len(r.compressed_data),
                        metadata |-> r.metadata]],
          fs |-> (MetadataPath(output_path) :> JsonRoundTrip(r.metadata))
                   @@ (output_path :> r.compressed_data) @@ files,
          pc |-> "returned", error |-> "none"]

\* compress_file, lines 45-93
CompressFile(instance, files, input_path, output_path) ==
    IF input_path \notin DOMAIN files
    THEN [inst |-> instance, fs |-> files, pc |-> "raised",
          error |-> "FileNotFoundError"]
    ELSE CompressFileWrite(instance, files, output_path, files[input_path],
             CodecCompress(instance.algo, instance.self, files[input_path]))

\* decompress_file without the check of line 122: the fallback is used as found
LoadMetadata_Unchecked(instance, files, input_path) ==
    IF MetadataPath(input_path) \in DOMAIN files
    THEN [found |-> TRUE, metadata |-> FixJsonKeys(files[MetadataPath(input_path)])]
    ELSE IF "metadata" \in DOMAIN instance.compression_stats
    THEN [found |-> TRUE, metadata |-> instance.compression_stats.metadata]
    ELSE [found |-> TRUE, metadata |-> <<>>]

\* decompress_file, lines 112-123: the metadata the call decodes with
LoadMetadata(instance, files, input_path) ==
    IF MetadataPath(input_path) \in DOMAIN files
    THEN [found |-> TRUE, metadata |-> FixJsonKeys(files[MetadataPath(input_path)])]
    ELSE IF "metadata" \in DOMAIN instance.compression_stats
            /\ instance.compression_stats.metadata # <<>>
    THEN [found |-> TRUE, metadata |-> instance.compression_stats.metadata]
    ELSE [found |-> FALSE, metadata |-> <<>>]

\* decompress_file, lines 128-141, after self.decompress ended in frame r
DecompressFileWrite(files, output_path, r) ==
    IF r.pc = "raised"
    THEN [fs |-> files, pc |-> "raised", error |-> r.error]
    ELSE [fs |-> (output_path :> r.result) @@ files,
          pc |-> "returned", error |-> "none"]

\* decompress_file, lines 122-141, with the metadata lookup m
DecompressFileWith(instance, files, input_path, output_path, m) ==
    IF ~m.found
    THEN [fs |-> files, pc |-> "raised", error |-> "FileNotFoundError"]
    ELSE DecompressFileWrite(files, output_path,
             CodecDecompress(instance.algo, files[input_path], m.metadata))

\* decompress_file, lines 95-141
DecompressFile(instance, files, input_path, output_path) ==
    IF input_path \notin DOMAIN files
    THEN [fs |-> files, pc |-> "raised", error |-> "FileNotFoundError"]
    ELSE DecompressFileWith(instance, files, input_path, output_path,
                            LoadMetadata(instance, files, input_path))

(***************************************************************************)
(* CloudSimulator (storage/cloud_simulator.py).  The bucket directory is a *)
(* function from path to content; the timing, throughput and cost fields   *)
(* of a result and the ratio of the compression info are left out.         *)
(***************************************************************************)
\* The keys of ALGORITHMS other than None, lines 21-25
ALGORITHMS == {"huffman", "arithmetic"}

\* upload, lines 70-75: compression_info
CloudCompressionInfo(algorithm, original_data, r) ==
    [algorithm |-> algorithm, original_size |-> Len(original_data),
     compressed_size |-> Len(r.compressed_data)]

CloudCallIdle ==
    [op |-> "none", data |-> <<>>, compress |-> FALSE, algorithm |-> "none",
     pc |-> "idle", error |-> "none", result |-> <<>>]

\* upload, lines 53-82, after compressor.compress ended in frame r
CloudUploadCompressed(bucket_dir, object_name, algorithm, original_data, r) ==
    IF r.pc = "raised"
    THEN [bucket |-> bucket_dir, pc |-> "raised", error |-> r.error,
          result |-> <<>>]
    ELSE [bucket |-> (object_name \o ".info.json" :>
                         CloudCompressionInfo(algorithm, original_data, r))
                     @@ (object_name \o ".metadata.json" :> JsonRoundTrip(r.metadata))
                     @@ (object_name \o ".compressed" :> r.compressed_data)
                     @@ bucket_dir,
          pc |-> "returned", error |-> "none",
          result |-> [object |-> object_name,
                      size_bytes |-> Len(r.compressed_data),
                      original_size |-> Len(original_data),
                      compressed |-> TRUE,
                      compression_stats |->
                          CloudCompressionInfo(algorithm, original_data, r)]]

\* upload, lines 83-92 and 102-115: the file is copied as it is
CloudUploadPlain(bucket_dir, object_name, original_data, compress) ==
    [bucket |-> (object_name :> original_data) @@ bucket_dir,
     pc |-> "returned", error |-> "none",
     result |-> [object |-> object_name,
                 size_bytes |-> Len(original_data),
                 original_size |-> Len(original_data),
                 compressed |-> compress]]

\* upload, lines 42-115, of an existing local file holding original_data
CloudUpload(bucket_dir, original_data, object_name, compress, algorithm) ==
    IF compress /\ algorithm # "none" /\ algorithm \in ALGORITHMS
    THEN CloudUploadCompressed(bucket_dir, object_name, algorithm, original_data,
             CodecCompress(algorithm, NewInstance(algorithm).self, original_data))
    ELSE CloudUploadPlain(bucket_dir, object_name, original_data, compress)

CloudDownloadIdle ==
    [pc |-> "idle", error |-> "none", written |-> FALSE, local |-> <<>>,
     result |-> <<>>]

\* download, lines 142-160: the object is decompressed and written
CloudDownloadDecompress(bucket_dir, object_name, algorithm) ==
    IF object_name \o ".metadata.json" \notin DOMAIN bucket_dir
    THEN [CloudDownloadIdle EXCEPT !.pc = "raised", !.error = "FileNotFoundError"]
    ELSE LET compressed_data == bucket_dir[object_name \o ".compressed"]
             metadata == FixJsonKeys(bucket_dir[object_name \o ".metadata.json"])
             r == CodecDecompress(algorithm, compressed_data, metadata)
         IN  IF r.pc = "raised"
             THEN [CloudDownloadIdle EXCEPT !.pc = "raised", !.error = r.error]
             ELSE [pc |-> "returned", error |-> "none", written |-> TRUE,
                   local |-> r.result,
                   result |-> [object |-> object_name,
                               size_bytes |-> Len(compressed_data),
                               downloaded_size |-> Len(r.result),
                               compressed |-> TRUE,
                               savings_bytes |-> Len(r.result) - Len(compressed_data)]]

\* download, lines 161-188: the file at src_path is copied as it is
CloudDownloadCopy(bucket_dir, object_name, src_path, is_compressed) ==
    [pc |-> "returned", error |-> "none", written |-> TRUE,
     local |-> bucket_dir[src_path],
     result |-> IF is_compressed
                THEN [object |-> object_name,
                      size_bytes |-> Len(bucket_dir[src_path]),
                      downloaded_size |-> Len(bucket_dir[src_path]),
                      compressed |-> TRUE, savings_bytes |-> 0]
                ELSE [object |-> object_name,
                      size_bytes |-> Len(bucket_dir[src_path]),
                      downloaded_size |-> Len(bucket_dir[src_path]),
                      compressed |-> FALSE]]

\* download, lines 117-189
CloudDownload(bucket_dir, object_name) ==
    LET compressed_path == object_name \o ".compressed"
        info_path == object_name \o ".info.json"
        is_compressed == {compressed_path, info_path} \subseteq DOMAIN bucket_dir
    IN  IF is_compressed
        THEN IF bucket_dir[info_path].algorithm \in ALGORITHMS
             THEN CloudDownloadDecompress(bucket_dir, object_name,
                                          bucket_dir[info_path].algorithm)
             ELSE CloudDownloadCopy(bucket_dir, object_name, compressed_path, TRUE)
        ELSE IF object_name \notin DOMAIN bucket_dir
        THEN [CloudDownloadIdle EXCEPT !.pc = "raised", !.error = "FileNotFoundError"]
        ELSE CloudDownloadCopy(bucket_dir, object_name, object_name, FALSE)

(***************************************************************************)
(* The LZW codec in use: one compress call, then decompress on what it     *)
(* returned, then _bytes_to_codes on the bytes it returned; for a short    *)
(* input also decompress on a changed stream or a changed code list.       *)
(***************************************************************************)
LZWCallCompress ==
    /\ lzw_enc.pc = "idle"
    /\ \E data \in Inputs \cup LongInputs : lzw_enc' = LZWCompressEnter(data)
    /\ UNCHANGED <<lzw_dec, lzw_unpack, lzw_dec_tampered, lzw_calls,
                   arith_vars, huff_vars, file_vars, cloud_vars>>

LZWStepCompressIter ==
    /\ lzw_enc.pc = "loop" /\ lzw_enc.i < Len(lzw_enc.data)
    /\ lzw_enc' = LZWCompressIter(lzw_enc)
    /\ UNCHANGED <<lzw_dec, lzw_unpack, lzw_dec_tampered, lzw_calls,
                   arith_vars, huff_vars, file_vars, cloud_vars>>

LZWStepCompressLast ==
    /\ lzw_enc.pc = "loop" /\ lzw_enc.i >= Len(lzw_enc.data)
    /\ lzw_enc' = LZWCompressLast(lzw_enc)
    /\ UNCHANGED <<lzw_dec, lzw_unpack, lzw_dec_tampered, lzw_calls,
                   arith_vars, huff_vars, file_vars, cloud_vars>>

LZWStepPackCode ==
    /\ lzw_enc.pc = "pack" /\ lzw_enc.j < Len(lzw_enc.compressed_codes)
    /\ lzw_enc' = LZWPackCode(lzw_enc)
    /\ UNCHANGED <<lzw_dec, lzw_unpack, lzw_dec_tampered, lzw_calls,
                   arith_vars, huff_vars, file_vars, cloud_vars>>

LZWStepCompressReturn ==
    /\ lzw_enc.pc = "pack" /\ lzw_enc.j >= Len(lzw_enc.compressed_codes)
    /\ lzw_enc' = LZWCompressReturn(lzw_enc)
    /\ UNCHANGED <<lzw_dec, lzw_unpack, lzw_dec_tampered, lzw_calls,
                   arith_vars, huff_vars, file_vars, cloud_vars>>

LZWCallDecompress ==
    /\ lzw_enc.pc = "returned" /\ lzw_dec.pc = "idle"
    /\ lzw_dec' = LZWDecompressEnter(lzw_enc.compressed_data, lzw_enc.metadata)
    /\ UNCHANGED <<lzw_enc, lzw_unpack, lzw_dec_tampered, lzw_calls,
                   arith_vars, huff_vars, file_vars, cloud_vars>>

LZWStepDecompressIter ==
    /\ lzw_dec.pc = "loop" /\ lzw_dec.i < Len(lzw_dec.compressed_codes)
    /\ lzw_dec' = LZWDecompressIter(lzw_dec)
    /\ UNCHANGED <<lzw_enc, lzw_unpack, lzw_dec_tampered, lzw_calls,
                   arith_vars, huff_vars, file_vars, cloud_vars>>

LZWStepDecompressReturn ==
    /\ lzw_dec.pc = "loop" /\ lzw_dec.i >= Len(lzw_dec.compressed_codes)
    /\ lzw_dec' = LZWDecompressReturn(lzw_dec)
    /\ UNCHANGED <<lzw_enc, lzw_unpack, lzw_dec_tampered, lzw_calls,
                   arith_vars, huff_vars, file_vars, cloud_vars>>

\* _bytes_to_codes is given the bytes compress returned and the number of
\* codes of its metadata, once decompress has ended.
LZWCallBytesToCodes ==
    /\ lzw_enc.pc = "returned" /\ lzw_dec.pc \in {"returned", "raised"}
    /\ lzw_unpack.pc = "idle"
    /\ lzw_unpack' = LZWBytesToCodesEnter(lzw_enc.compressed_data,
                                          Len(lzw_enc.metadata.compressed_codes))
    /\ UNCHANGED <<lzw_enc, lzw_dec, lzw_dec_tampered, lzw_calls,
                   arith_vars, huff_vars, file_vars, cloud_vars>>

LZWStepBytesToCodesIter ==
    /\ lzw_unpack.pc = "loop" /\ LZWBytesToCodesMore(lzw_unpack)
    /\ lzw_unpack' = LZWBytesToCodesIter(lzw_unpack)
    /\ UNCHANGED <<lzw_enc, lzw_dec, lzw_dec_tampered, lzw_calls,
                   arith_vars, huff_vars, file_vars, cloud_vars>>

LZWStepBytesToCodesReturn ==
    /\ lzw_unpack.pc = "loop" /\ ~LZWBytesToCodesMore(lzw_unpack)
    /\ lzw_unpack' = LZWBytesToCodesReturn(lzw_unpack)
    /\ UNCHANGED <<lzw_enc, lzw_dec, lzw_dec_tampered, lzw_calls,
                   arith_vars, huff_vars, file_vars, cloud_vars>>

\* What decompress may be given in place of what compress returned: the
\* stream with its first byte changed, or the metadata with its last code
\* replaced by the largest code.
LZWTamperings == {"stream", "code"}

LZWTamperedStream(compressed_data) ==
    [compressed_data EXCEPT ![1] = 255 - @]

LZWTamperedMetadata(metadata) ==
    [metadata EXCEPT !.compressed_codes =
        [@ EXCEPT ![Len(@)] = max_dict_size - 1]]

\* decompress is called, whole, with what compress returned for a short
\* input, the stream or the code list changed.
LZWCallDecompressTampered ==
    /\ lzw_enc.pc = "returned" /\ lzw_enc.data # <<>>
    /\ Len(lzw_enc.data) <= MaxLen
    /\ lzw_dec_tampered.pc = "idle"
    /\ \E t \in LZWTamperings :
           lzw_dec_tampered' =
               IF t = "stream"
               THEN LZWDecompress(LZWTamperedStream(lzw_enc.compressed_data),
                                  lzw_enc.metadata)
               ELSE LZWDecompress(lzw_enc.compressed_data,
                                  LZWTamperedMetadata(lzw_enc.metadata))
    /\ UNCHANGED <<lzw_enc, lzw_dec, lzw_unpack, lzw_calls, arith_vars, huff_vars,
                   file_vars, cloud_vars>>

NextLZW ==
    \/ LZWCallCompress
    \/ LZWStepCompressIter
    \/ LZWStepCompressLast
    \/ LZWStepPackCode
    \/ LZWStepCompressReturn
    \/ LZWCallDecompress
    \/ LZWStepDecompressIter
    \/ LZWStepDecompressReturn
    \/ LZWCallBytesToCodes
    \/ LZWStepBytesToCodesIter
    \/ LZWStepBytesToCodesReturn
    \/ LZWCallDecompressTampered

(***************************************************************************)
(* The arithmetic codec in use: up to MaxCalls compress calls on one       *)
(* instance, each followed, or not, by decompress on what it returned.     *)
(***************************************************************************)
ArithCallCompress ==
    /\ arith_enc.pc \in {"idle", "returned", "raised"}
    /\ arith_dec.pc \in {"idle", "returned", "raised"}
    /\ arith_calls < MaxCalls
    /\ \E data \in (IF arith_calls = 0 THEN Inputs \cup {ArithLongInput}
                     ELSE LaterInputs) :
           arith_enc' = ArithCompressEnter(arith_enc.self, data)
    /\ arith_dec' = ArithDecIdle
    /\ arith_dec_tampered' = ArithDecIdle
    /\ arith_calls' = arith_calls + 1
    /\ UNCHANGED <<lzw_vars, huff_vars, file_vars, cloud_vars>>

ArithStepNarrow ==
    /\ arith_enc.pc = "symbol" /\ arith_enc.i < Len(arith_enc.data)
    /\ arith_enc' = ArithCompressNarrow(arith_enc)
    /\ UNCHANGED <<arith_dec, arith_calls, arith_dec_tampered, lzw_vars, huff_vars,
                   file_vars, cloud_vars>>

ArithStepRenorm ==
    /\ arith_enc.pc = "renorm"
    /\ Len(arith_enc.emitted) < MaxEmitted
    /\ arith_enc' = ArithCompressRenorm(arith_enc)
    /\ UNCHANGED <<arith_dec, arith_calls, arith_dec_tampered, lzw_vars, huff_vars,
                   file_vars, cloud_vars>>

ArithStepFlush ==
    /\ arith_enc.pc = "symbol" /\ arith_enc.i >= Len(arith_enc.data)
    /\ arith_enc' = ArithCompressFlush(arith_enc)
    /\ UNCHANGED <<arith_dec, arith_calls, arith_dec_tampered, lzw_vars, huff_vars,
                   file_vars, cloud_vars>>

ArithStepReturn ==
    /\ arith_enc.pc = "to_bytes"
    /\ arith_enc' = ArithCompressReturn(arith_enc)
    /\ UNCHANGED <<arith_dec, arith_calls, arith_dec_tampered, lzw_vars, huff_vars,
                   file_vars, cloud_vars>>

ArithCallDecompress ==
    /\ arith_enc.pc = "returned" /\ arith_dec.pc = "idle"
    /\ arith_dec' = ArithDecompressEnter(arith_enc.compressed_data, arith_enc.metadata)
    /\ UNCHANGED <<arith_enc, arith_calls, arith_dec_tampered, lzw_vars, huff_vars,
                   file_vars, cloud_vars>>

ArithStepDecSymbol ==
    /\ arith_dec.pc = "symbol" /\ arith_dec.n < arith_dec.metadata.total_symbols
    /\ arith_dec' = ArithDecompressSymbol(arith_dec)
    /\ UNCHANGED <<arith_enc, arith_calls, arith_dec_tampered, lzw_vars, huff_vars,
                   file_vars, cloud_vars>>

ArithStepDecRenorm ==
    /\ arith_dec.pc = "renorm"
    /\ arith_dec' = ArithDecompressRenorm(arith_dec)
    /\ UNCHANGED <<arith_enc, arith_calls, arith_dec_tampered, lzw_vars, huff_vars,
                   file_vars, cloud_vars>>

ArithStepDecReturn ==
    /\ arith_dec.pc = "symbol" /\ arith_dec.n >= arith_dec.metadata.total_symbols
    /\ arith_dec' = ArithDecompressReturn(arith_dec)
    /\ UNCHANGED <<arith_enc, arith_calls, arith_dec_tampered, lzw_vars, huff_vars,
                   file_vars, cloud_vars>>

\* decompress is called with what compress returned, one symbol's entry
\* removed from the cumulative table of the metadata.
ArithCallDecompressTampered ==
    /\ arith_enc.pc = "returned" /\ arith_dec_tampered.pc = "idle"
    /\ "cumulative_freq" \in DOMAIN arith_enc.metadata
    /\ \E symbol \in DOMAIN arith_enc.metadata.cumulative_freq :
           arith_dec_tampered' =
               ArithDecompress(arith_enc.compressed_data,
                               ArithWithoutSymbol(arith_enc.metadata, symbol))
    /\ UNCHANGED <<arith_enc, arith_dec, arith_calls, lzw_vars, huff_vars, file_vars,
                   cloud_vars>>

NextArith ==
    \/ ArithCallCompress
    \/ ArithCallDecompressTampered
    \/ ArithStepNarrow
    \/ ArithStepRenorm
    \/ ArithStepFlush
    \/ ArithStepReturn
    \/ ArithCallDecompress
    \/ ArithStepDecSymbol
    \/ ArithStepDecRenorm
    \/ ArithStepDecReturn

(***************************************************************************)
(* The Huffman codec in use: up to MaxCalls compress calls on one          *)
(* instance, each followed, or not, by decompress on what it returned.     *)
(***************************************************************************)
\* Six times the same byte.
HuffRepeated == [k \in 1..6 |-> Sym(0)]

HuffEncIdle ==
    [self |-> HuffFresh, pc |-> "idle", data |-> <<>>, error |-> "none",
     compressed_data |-> <<>>, metadata |-> <<>>]

HuffDecIdle == [pc |-> "idle", result |-> <<>>, error |-> "none"]

\* The fields decompress reads from its metadata, lines 160-161
HuffMetadataFields == {"huffman_codes", "original_length"}

HuffDecWithoutIdle ==
    [removed |-> "none", pc |-> "idle", result |-> <<>>, error |-> "none"]

\* A dict without one of its keys.
WithoutField(metadata, field) ==
    [k \in DOMAIN metadata \ {field} |-> metadata[k]]

\* decompress(compressed_data, metadata without field): the call's outcome
HuffDecompressOutcome(field, r) ==
    [removed |-> field, pc |-> r.pc, result |-> r.result, error |-> r.error]

HuffDecompressWithout(compressed_data, metadata, field) ==
    HuffDecompressOutcome(field,
        HuffDecompress(compressed_data, WithoutField(metadata, field)))

\* What is added to the metadata's original_length before decompress is
\* given it: one bit less, or a byte more than the stream holds.
HuffLengthChanges == {0 - 1, 8}

HuffDecTamperedIdle ==
    [pc |-> "idle", compressed_data |-> <<>>, metadata |-> <<>>,
     result |-> <<>>, error |-> "none"]

\* decompress(compressed_data, metadata): the arguments and the outcome
HuffDecompressCall(compressed_data, metadata) ==
    LET r == HuffDecompress(compressed_data, metadata)
    IN  [pc |-> r.pc, compressed_data |-> compressed_data, metadata |-> metadata,
         result |-> r.result, error |-> r.error]

HuffCallCompress ==
    /\ huff_calls < MaxCalls
    /\ \E data \in (IF huff_calls = 0 THEN Inputs \cup {HuffRepeated}
                    ELSE LaterInputs) :
           huff_enc' = HuffCompress(huff_enc.self, data)
    /\ huff_dec' = HuffDecIdle
    /\ huff_dec_without' = HuffDecWithoutIdle
    /\ huff_dec_tampered' = HuffDecTamperedIdle
    /\ huff_calls' = huff_calls + 1
    /\ UNCHANGED <<lzw_vars, arith_vars, file_vars, cloud_vars>>

HuffCallDecompress ==
    /\ huff_enc.pc = "returned" /\ huff_dec.pc = "idle"
    /\ huff_dec' = HuffDecompress(huff_enc.compressed_data, huff_enc.metadata)
    /\ UNCHANGED <<huff_enc, huff_calls, huff_dec_without, huff_dec_tampered,
                   lzw_vars, arith_vars,
                   file_vars, cloud_vars>>

\* decompress is called with the metadata compress returned, one of the
\* fields decompress reads removed from it.
HuffCallDecompressWithout ==
    /\ huff_enc.pc = "returned" /\ huff_dec_without.pc = "idle"
    /\ \E field \in HuffMetadataFields :
           huff_dec_without' =
               HuffDecompressWithout(huff_enc.compressed_data, huff_enc.metadata,
                                     field)
    /\ UNCHANGED <<huff_enc, huff_dec, huff_calls, huff_dec_tampered, lzw_vars,
                   arith_vars, file_vars,
                   cloud_vars>>

\* decompress is called with the bytes compress returned and its metadata,
\* original_length changed.
HuffCallDecompressTampered ==
    /\ huff_enc.pc = "returned" /\ huff_dec_tampered.pc = "idle"
    /\ \E change \in HuffLengthChanges :
           huff_dec_tampered' =
               HuffDecompressCall(huff_enc.compressed_data,
                                  [huff_enc.metadata EXCEPT
                                      !.original_length = @ + change])
    /\ UNCHANGED <<huff_enc, huff_dec, huff_calls, huff_dec_without, lzw_vars,
                   arith_vars, file_vars, cloud_vars>>

NextHuff ==
    \/ HuffCallCompress
    \/ HuffCallDecompress
    \/ HuffCallDecompressWithout
    \/ HuffCallDecompressTampered

(***************************************************************************)
(* The file adapter in use: a file "in" is written and a codec is          *)
(* constructed; compress_file("in", "out"); decompress_file("out",         *)
(* "restored") on the same instance or on a new one of the same codec.     *)
(* Afterwards compress_file of a second file on the same instance, the     *)
(* metadata file beside "out" deleted, and decompress_file("out", ...).    *)
(***************************************************************************)
FileCallIdle == [op |-> "none", pc |-> "idle", error |-> "none"]

\* The state after compress_file ended as r says.
FileCompressEnds(r) ==
    /\ fs' = r.fs
    /\ inst' = r.inst
    /\ file_call' = [op |-> "compress_file", pc |-> r.pc, error |-> r.error]

\* The state after decompress_file ended as r says.
FileDecompressEnds(r) ==
    /\ fs' = r.fs
    /\ file_call' = [op |-> "decompress_file", pc |-> r.pc, error |-> r.error]

FileDecompressNoMetadataEnds(r) ==
    /\ fs' = r.fs
    /\ file_call_no_metadata' =
           [op |-> "decompress_file", pc |-> r.pc, error |-> r.error]

FileSetUp ==
    /\ fs = <<>> /\ inst = <<>>
    /\ \E algo \in Algorithms, data \in Inputs :
           /\ fs' = ("in" :> data)
           /\ inst' = NewInstance(algo)
    /\ UNCHANGED <<file_call, file_call_no_metadata, file_call_stale,
                   lzw_vars, arith_vars, huff_vars, cloud_vars>>

FileCompress ==
    /\ inst # <<>> /\ file_call.op = "none"
    /\ FileCompressEnds(CompressFile(inst, fs, "in", "out"))
    /\ UNCHANGED <<file_call_no_metadata, file_call_stale, lzw_vars,
                   arith_vars, huff_vars, cloud_vars>>

FileNewInstance ==
    /\ file_call.op = "compress_file"
    /\ inst # NewInstance(inst.algo)
    /\ inst' = NewInstance(inst.algo)
    /\ UNCHANGED <<fs, file_call, file_call_no_metadata, file_call_stale,
                   lzw_vars, arith_vars, huff_vars, cloud_vars>>

FileDecompress ==
    /\ file_call.op = "compress_file"
    /\ FileDecompressEnds(DecompressFile(inst, fs, "out", "restored"))
    /\ UNCHANGED <<inst, file_call_no_metadata, file_call_stale, lzw_vars,
                   arith_vars, huff_vars, cloud_vars>>

\* decompress_file is called on "in", a file that has no metadata file beside
\* it, with "restored" as the output path.
FileDecompressNoMetadata ==
    /\ inst # <<>> /\ file_call_no_metadata.op = "none"
    /\ FileDecompressNoMetadataEnds(DecompressFile(inst, fs, "in", "restored"))
    /\ UNCHANGED <<inst, file_call, file_call_stale, lzw_vars, arith_vars,
                   huff_vars, cloud_vars>>

\* A second file "in2" is written and compress_file("in2", "out2") is called
\* on the instance that wrote "out" from a non-empty "in".
FileCompressOther ==
    /\ file_call.op = "decompress_file" /\ file_call_stale.op = "none"
    /\ fs["in"] # <<>>
    /\ {"out", MetadataPath("out")} \subseteq DOMAIN fs
    /\ "metadata" \in DOMAIN inst.compression_stats
    /\ \E data \in LaterInputs :
           LET r == CompressFile(inst, ("in2" :> data) @@ fs, "in2", "out2")
           IN  /\ fs' = r.fs
               /\ inst' = r.inst
               /\ file_call_stale' =
                      [op |-> "compress_file", pc |-> r.pc, error |-> r.error]
    /\ UNCHANGED <<file_call, file_call_no_metadata, lzw_vars, arith_vars,
                   huff_vars, cloud_vars>>

\* os.remove("out.metadata.json"): the metadata file beside "out" is deleted.
FileRemoveMetadata ==
    /\ file_call_stale.op = "compress_file" /\ file_call_stale.pc = "returned"
    /\ MetadataPath("out") \in DOMAIN fs
    /\ fs' = [path \in DOMAIN fs \ {MetadataPath("out")} |-> fs[path]]
    /\ file_call_stale' = [file_call_stale EXCEPT !.op = "remove"]
    /\ UNCHANGED <<inst, file_call, file_call_no_metadata, lzw_vars, arith_vars,
                   huff_vars, cloud_vars>>

\* decompress_file("out", "restored2") on the same instance, "out" without
\* its metadata file.
FileDecompressAfterOther ==
    /\ file_call_stale.op = "remove"
    /\ LET r == DecompressFile(inst, fs, "out", "restored2")
       IN  /\ fs' = r.fs
           /\ file_call_stale' =
                  [op |-> "decompress_file", pc |-> r.pc, error |-> r.error]
    /\ UNCHANGED <<inst, file_call, file_call_no_metadata, lzw_vars, arith_vars,
                   huff_vars, cloud_vars>>

CloudUploadEnds(data, compress, algorithm, r) ==
    /\ bucket' = r.bucket
    /\ cloud_call' = [op |-> "upload", data |-> data, compress |-> compress,
                      algorithm |-> algorithm, pc |-> r.pc, error |-> r.error,
                      result |-> r.result]
    /\ cloud_uploads' = cloud_uploads + 1

\* upload("obj") of a local file holding data, as object "obj"; algorithm
\* "none" stands for None, the default.
CloudCallUpload ==
    /\ cloud_uploads < MaxCalls
    /\ \E data \in (IF cloud_uploads = 0 THEN Inputs ELSE LaterInputs),
          compress \in BOOLEAN, algorithm \in Algorithms \cup {"none"} :
           CloudUploadEnds(data, compress, algorithm,
                           CloudUpload(bucket, data, "obj", compress, algorithm))
    /\ cloud_download' = CloudDownloadIdle
    /\ UNCHANGED <<lzw_vars, arith_vars, huff_vars, file_vars>>

\* download("obj", local_path) after an upload
CloudCallDownload ==
    /\ cloud_uploads >= 1 /\ cloud_download.pc = "idle"
    /\ cloud_download' = CloudDownload(bucket, "obj")
    /\ UNCHANGED <<bucket, cloud_call, cloud_uploads, lzw_vars, arith_vars,
                   huff_vars, file_vars>>

NextCloud ==
    \/ CloudCallUpload
    \/ CloudCallDownload

NextFile ==
    \/ FileDecompressNoMetadata
    \/ FileSetUp
    \/ FileCompress
    \/ FileNewInstance
    \/ FileDecompress
    \/ FileCompressOther
    \/ FileRemoveMetadata
    \/ FileDecompressAfterOther

Init ==
    /\ lzw_enc = LZWEncIdle
    /\ lzw_dec = LZWDecIdle
    /\ lzw_unpack = LZWUnpackIdle
    /\ lzw_dec_tampered = LZWDecIdle
    /\ lzw_calls = 0
    /\ arith_enc = ArithEncIdle(ArithFresh)
    /\ arith_dec = ArithDecIdle
    /\ arith_calls = 0
    /\ arith_dec_tampered = ArithDecIdle
    /\ huff_enc = HuffEncIdle
    /\ huff_dec = HuffDecIdle
    /\ huff_calls = 0
    /\ huff_dec_without = HuffDecWithoutIdle
    /\ huff_dec_tampered = HuffDecTamperedIdle
    /\ fs = <<>>
    /\ inst = <<>>
    /\ file_call = FileCallIdle
    /\ file_call_no_metadata = FileCallIdle
    /\ file_call_stale = FileCallIdle
    /\ bucket = <<>>
    /\ cloud_call = CloudCallIdle
    /\ cloud_uploads = 0
    /\ cloud_download = CloudDownloadIdle

SpecLZW == Init /\ [][NextLZW]_vars

SpecArith == Init /\ [][NextArith]_vars

SpecHuff == Init /\ [][NextHuff]_vars

SpecFile == Init /\ [][NextFile]_vars

SpecCloud == Init /\ [][NextCloud]_vars

(***************************************************************************)
(* One HuffmanCompressor and one LZWCompressor, each given up to MaxCalls  *)
(* compress calls, each followed, or not, by decompress on what it         *)
(* returned.  The LZW calls are taken whole.                               *)
(***************************************************************************)
LZWCallCompressWhole ==
    /\ lzw_calls < MaxCalls
    /\ lzw_enc.pc \in {"idle", "returned"}
    /\ \E data \in LaterInputs \cup {<<Sym(0), Sym(0), Sym(0)>>} :
           lzw_enc' = LZWCompress(data)
    /\ lzw_dec' = LZWDecIdle
    /\ lzw_calls' = lzw_calls + 1
    /\ UNCHANGED <<lzw_unpack, lzw_dec_tampered, arith_vars, huff_vars, file_vars,
                   cloud_vars>>

LZWCallDecompressWhole ==
    /\ lzw_calls >= 1
    /\ lzw_enc.pc = "returned" /\ lzw_dec.pc = "idle"
    /\ lzw_dec' = LZWDecompress(lzw_enc.compressed_data, lzw_enc.metadata)
    /\ UNCHANGED <<lzw_enc, lzw_unpack, lzw_dec_tampered, lzw_calls, arith_vars,
                   huff_vars, file_vars, cloud_vars>>

NextCalls ==
    \/ HuffCallCompress
    \/ HuffCallDecompress
    \/ LZWCallCompressWhole
    \/ LZWCallDecompressWhole

SpecCalls == Init /\ [][NextCalls]_vars

Next == NextLZW \/ NextArith \/ NextHuff \/ NextFile \/ NextCloud \/ NextCalls

Spec == Init /\ [][Next]_vars

(***************************************************************************)
(* Properties                                                              *)
(***************************************************************************)
BytesOf(data) == {data[k] : k \in 1..Len(data)}

LastOf(seq) == seq[Len(seq)]

\* C1: on a fresh ArithmeticCompressor, compress(x) returns and decompress on
\* what it returned returns exactly x, for every byte string x.
C1_ArithRoundTrip ==
    arith_calls = 1 =>
        /\ arith_enc.pc # "raised"
        /\ arith_dec.pc # "raised"
        /\ arith_dec.pc = "returned" => arith_dec.result = arith_enc.data

\* C2: Huffman decompress on what compress(x) returned returns exactly x.
C2_HuffRoundTrip ==
    /\ huff_enc.pc # "raised"
    /\ huff_dec.pc # "raised"
    /\ huff_dec.pc = "returned" => huff_dec.result = huff_enc.data

C2_Witness ==
    /\ huff_dec.pc = "returned"
    /\ Len(huff_enc.data) = MaxLen
    /\ Cardinality(BytesOf(huff_enc.data)) >= 3
    /\ huff_enc.metadata.padding > 0
    /\ huff_dec.result = huff_enc.data

\* C3: LZW decompress on what compress(x) returned returns exactly x, also
\* when the dictionary fills to max_dict_size and when a code is used right
\* after it is assigned.
C3_LZWRoundTrip ==
    /\ lzw_enc.pc # "raised"
    /\ lzw_dec.pc # "raised"
    /\ lzw_dec.pc = "returned" => lzw_dec.result = lzw_enc.data

C3_Witness ==
    /\ lzw_dec.pc = "returned"
    /\ lzw_dec.taken = "not_in_dict"
    /\ lzw_dec.next_code = max_dict_size
    /\ LastOf(lzw_dec.compressed_codes) = max_dict_size - 1
    /\ lzw_dec.result = lzw_enc.data

ArithBuffersEmpty(self) ==
    /\ self.has_bit_buffer =>
           self.bit_buffer = 0 /\ self.bits_in_buffer = 0 /\ self.pending_bits = 0
    /\ self.has_output_bytes => self.output_bytes = <<>>

SameOutcome(a, b) ==
    /\ a.pc = b.pc
    /\ a.compressed_data = b.compressed_data
    /\ a.metadata = b.metadata

\* C4: whatever compress calls an ArithmeticCompressor has completed, the
\* next compress call starts with the bit buffer, the pending-bit counter
\* and the output bytes empty, and returns what a fresh instance returns.
C4_ArithCallsIndependent ==
    /\ (arith_enc.pc = "symbol" /\ arith_enc.i = 0) => ArithBuffersEmpty(arith_enc.self)
    /\ arith_enc.pc \in {"returned", "raised"} =>
           SameOutcome(arith_enc, ArithCompress(ArithFresh, arith_enc.data))

\* C5: for each of the three codecs, compress_file(in, out) and then
\* decompress_file(out, restored), on the same instance or a new one, both
\* return, and restored holds exactly the bytes of in.
C5_FileRoundTrip ==
    /\ file_call.op # "none" => file_call.pc = "returned"
    /\ file_call.op = "decompress_file" =>
           "restored" \in DOMAIN fs /\ fs["restored"] = fs["in"]

EmptyMetadata(algo) ==
    IF algo = "huffman"
    THEN [huffman_codes |-> <<>>, original_length |-> 0, padding |-> 0]
    ELSE IF algo = "lzw"
    THEN [compressed_codes |-> <<>>]
    ELSE [freq_table |-> <<>>, total_symbols |-> 0]

\* C6: for each of the three codecs, compress of the empty input returns
\* empty bytes with the empty metadata of the codec (no codes, zero
\* lengths), and decompress of empty bytes with it returns empty bytes.
\* compress_file and decompress_file pass the calls through unchanged.
C6_EmptyInput ==
    ("in" \in DOMAIN fs /\ fs["in"] = <<>> /\ file_call.op # "none") =>
        /\ file_call.pc = "returned"
        /\ fs["out"] = <<>>
        /\ "metadata" \in DOMAIN inst.compression_stats =>
               inst.compression_stats.metadata = EmptyMetadata(inst.algo)
        /\ file_call.op = "decompress_file" => fs["restored"] = <<>>

C6_Witness ==
    /\ file_call.op = "decompress_file"
    /\ file_call.pc = "returned"
    /\ inst.algo = "arithmetic"
    /\ fs["in"] = <<>>
    /\ fs["out"] = <<>>
    /\ fs["restored"] = <<>>
    /\ "metadata" \in DOMAIN inst.compression_stats

IsPrefix(a, b) == Len(a) <= Len(b) /\ SubSeq(b, 1, Len(a)) = a

\* C7: the code table compress builds for a non-empty input has one
\* non-empty code for each distinct byte of the input and no others, no code
\* is a prefix of another byte's code, and a single distinct byte gets "0".
C7_HuffPrefixFree ==
    (huff_enc.pc = "returned" /\ huff_enc.data # <<>>) =>
        /\ huff_enc.self.huffman_codes = huff_enc.metadata.huffman_codes
        /\ DOMAIN huff_enc.metadata.huffman_codes = BytesOf(huff_enc.data)
        /\ \A a \in BytesOf(huff_enc.data) :
               /\ huff_enc.metadata.huffman_codes[a] # <<>>
               /\ \A k \in 1..Len(huff_enc.metadata.huffman_codes[a]) :
                      huff_enc.metadata.huffman_codes[a][k] \in {0, 1}
               /\ \A b \in BytesOf(huff_enc.data) \ {a} :
                      ~IsPrefix(huff_enc.metadata.huffman_codes[a],
                                huff_enc.metadata.huffman_codes[b])
        /\ Cardinality(BytesOf(huff_enc.data)) = 1 =>
               huff_enc.metadata.huffman_codes[huff_enc.data[1]] = <<0>>

C7_Witness ==
    /\ huff_enc.pc = "returned"
    /\ Cardinality(DOMAIN huff_enc.metadata.huffman_codes) >= 3
    /\ \E a, b \in DOMAIN huff_enc.metadata.huffman_codes :
           Len(huff_enc.metadata.huffman_codes[a])
               < Len(huff_enc.metadata.huffman_codes[b])

\* C8: after every step of LZW compress and of LZW decompress the
\* dictionary holds at most max_dict_size entries and the next free code is
\* at most max_dict_size.
C8_LZWDictionaryBounded ==
    /\ Cardinality(DOMAIN lzw_enc.dictionary) <= max_dict_size
    /\ lzw_enc.next_code <= max_dict_size
    /\ Cardinality(DOMAIN lzw_dec.reverse_dict) <= max_dict_size
    /\ lzw_dec.next_code <= max_dict_size

C8_Witness ==
    /\ lzw_enc.next_code = max_dict_size
    /\ Cardinality(DOMAIN lzw_enc.dictionary) = max_dict_size
    /\ Len(lzw_enc.compressed_codes) > max_dict_size - 255
    /\ lzw_dec.pc = "loop"
    /\ lzw_dec.next_code = max_dict_size
    /\ Cardinality(DOMAIN lzw_dec.reverse_dict) = max_dict_size
    /\ lzw_dec.i > max_dict_size - 255

MatchesAt(data, p, seq) ==
    /\ p + Len(seq) <= Len(data)
    /\ \A k \in 1..Len(seq) : data[p + k] = seq[k]

\* No entry longer than n matches data at p, where data has the byte first:
\* an entry that begins with another byte does not match.
NoLongerMatch(dictionary, data, p, n, first) ==
    \A s \in DOMAIN dictionary :
        Len(s) <= n \/ s[1] # first \/ ~MatchesAt(data, p, s)

\* The entry seq of the dictionary of frame f matches the input where the
\* current match began, and no longer entry does.
LongestMatch(f, seq) ==
    /\ MatchesAt(f.data, f.i - Len(f.current_sequence), seq)
    /\ NoLongerMatch(f.dictionary, f.data, f.i - Len(f.current_sequence),
                     Len(seq), f.data[f.i - Len(f.current_sequence) + 1])

\* code is the code of the entry the current match has grown to.
EmittedFrom(f, code) ==
    /\ 0 <= code /\ code < f.next_code /\ f.next_code <= max_dict_size
    /\ f.current_sequence \in DOMAIN f.dictionary
    /\ f.dictionary[f.current_sequence] = code
    /\ LongestMatch(f, f.current_sequence)

\* C9: every code LZW compress emits is, when emitted, the code of an entry
\* of the dictionary (0 <= code < next_code <= max_dict_size), and that entry
\* is the longest entry matching the input at the current position, which
\* is where the previous match ended.
C9_LZWEmittedCodes ==
    [][Len(lzw_enc'.compressed_codes) = Len(lzw_enc.compressed_codes) + 1 =>
           /\ EmittedFrom(lzw_enc, LastOf(lzw_enc'.compressed_codes))
           /\ lzw_enc'.pc = "loop" =>
                  lzw_enc'.i - Len(lzw_enc'.current_sequence) = lzw_enc.i]_vars

C9_Witness ==
    /\ lzw_enc.pc = "pack"
    /\ lzw_enc.next_code = max_dict_size
    /\ LastOf(lzw_enc.compressed_codes) = max_dict_size - 1
    /\ \E k \in 1..Len(lzw_enc.compressed_codes) :
           lzw_enc.compressed_codes[k] < 256

\* C10: the cumulative table of arithmetic compress starts at 0 for the
\* smallest symbol, is strictly increasing in symbol order, gives each symbol
\* the sum of the counts of all smaller symbols, and the last entry plus the
\* last count is total_freq, which is total_symbols and the input's length.
C10_ArithCumulative ==
    arith_enc.data # <<>> =>
        /\ DOMAIN arith_enc.cumulative_freq = BytesOf(arith_enc.data)
        /\ DOMAIN arith_enc.freq_table = BytesOf(arith_enc.data)
        /\ \A c \in BytesOf(arith_enc.data) :
               /\ arith_enc.cumulative_freq[c] =
                      Cardinality({k \in 1..Len(arith_enc.data) : arith_enc.data[k] < c})
               /\ (\A d \in BytesOf(arith_enc.data) : c <= d) =>
                      arith_enc.cumulative_freq[c] = 0
               /\ \A d \in BytesOf(arith_enc.data) :
                      c < d => arith_enc.cumulative_freq[c] < arith_enc.cumulative_freq[d]
               /\ (\A d \in BytesOf(arith_enc.data) : d <= c) =>
                      arith_enc.cumulative_freq[c] + arith_enc.freq_table[c]
                          = arith_enc.total_freq
        /\ arith_enc.total_freq = arith_enc.total_symbols
        /\ arith_enc.total_symbols = Len(arith_enc.data)

C10_Witness ==
    /\ arith_enc.pc = "returned"
    /\ Cardinality(BytesOf(arith_enc.data)) >= 3
    /\ Len(arith_enc.data) = MaxLen
    /\ \E c \in BytesOf(arith_enc.data) : arith_enc.freq_table[c] >= 2

ArithIntervalOk(low, high) == 0 <= low /\ low <= high /\ high <= max_value

\* C11: in arithmetic compress and decompress, after every narrowing step
\* and every renormalisation step, 0 <= low <= high <= max_value: the
\* interval is never empty.
C11_ArithIntervalOrdered ==
    /\ arith_enc.pc \in {"symbol", "renorm", "to_bytes", "returned", "raised"}
           /\ arith_enc.data # <<>>
           => ArithIntervalOk(arith_enc.low, arith_enc.high)
    /\ arith_dec.pc \in {"symbol", "renorm"}
           \/ (arith_dec.pc = "returned" /\ arith_dec.compressed_data # <<>>)
           => ArithIntervalOk(arith_dec.low, arith_dec.high)

\* C12: Huffman decompress on metadata from which huffman_codes has been
\* removed raises, for every compressed input, the empty one included; it
\* never returns bytes.
C12_HuffMissingCodesRaises ==
    huff_dec_without.removed = "huffman_codes" => huff_dec_without.pc = "raised"

\* C13: arithmetic decompress on a non-empty compressed stream returns
\* exactly total_symbols bytes or raises; it never returns a shorter output.
C13_ArithNoTruncatedOutput ==
    \A f \in {arith_dec, arith_dec_tampered} :
        (f.pc = "returned" /\ f.compressed_data # <<>>) =>
            Len(f.result) = f.metadata.total_symbols

\* The instance holds no metadata of an earlier compress_file call.
NoInProcessMetadata(instance) ==
    \/ "metadata" \notin DOMAIN instance.compression_stats
    \/ instance.compression_stats.metadata = <<>>

\* C14: decompress_file(p, out), called when p + ".metadata.json" does not
\* exist and the instance holds no metadata in process, raises
\* FileNotFoundError, neither creates nor overwrites out, and leaves the
\* instance's compression_stats as they were.
C14_NoMetadataNotFound ==
    [][(/\ file_call_no_metadata' # file_call_no_metadata
        /\ MetadataPath("in") \notin DOMAIN fs
        /\ NoInProcessMetadata(inst))
           => /\ file_call_no_metadata'.pc = "raised"
              /\ file_call_no_metadata'.error = "FileNotFoundError"
              /\ fs' = fs
              /\ inst'.compression_stats = inst.compression_stats]_vars

\* The call raised for want of metadata while an earlier decompress_file had
\* left a file at the output path.
C14_Witness ==
    /\ file_call_no_metadata.error = "FileNotFoundError"
    /\ MetadataPath("in") \notin DOMAIN fs
    /\ "in" \in DOMAIN fs /\ fs["in"] # <<>>
    /\ NoInProcessMetadata(inst)
    /\ file_call = [op |-> "decompress_file", pc |-> "returned", error |-> "none"]
    /\ "restored" \in DOMAIN fs /\ fs["restored"] = fs["in"]

\* The three artifacts of object_name, as upload writes them for data and
\* algorithm, are in the bucket.
CloudArtifactsWritten(object_name, data, algorithm) ==
    /\ {object_name \o ".compressed", object_name \o ".metadata.json",
         object_name \o ".info.json"} \subseteq DOMAIN bucket
    /\ bucket[object_name \o ".info.json"].algorithm = algorithm
    /\ bucket[object_name \o ".info.json"].original_size = Len(data)
    /\ bucket[object_name \o ".compressed"] =
           CodecCompress(algorithm, NewInstance(algorithm).self, data).compressed_data

\* C15: upload with compress = True and algorithm huffman, lzw or arithmetic
\* compresses through that codec and leaves the .compressed, .metadata.json
\* and .info.json files in the bucket; the result says compressed = true
\* only when those files were written.
C15_UploadCompresses ==
    cloud_call.op = "upload" =>
        /\ (cloud_call.compress /\ cloud_call.algorithm \in Algorithms) =>
               /\ cloud_call.pc = "returned"
               /\ CloudArtifactsWritten("obj", cloud_call.data, cloud_call.algorithm)
        /\ (cloud_call.pc = "returned" /\ cloud_call.result.compressed) =>
               /\ cloud_call.algorithm \in Algorithms
               /\ CloudArtifactsWritten("obj", cloud_call.data, cloud_call.algorithm)

\* The byte whose bits are bits[8k-7 .. 8k], most significant first; positions
\* past the end of bits count as 0.
PackedByte(bits, k) ==
    LET bit(j) == IF 8 * (k - 1) + j <= Len(bits) THEN bits[8 * (k - 1) + j] ELSE 0
    IN  128 * bit(1) + 64 * bit(2) + 32 * bit(3) + 16 * bit(4)
        + 8 * bit(5) + 4 * bit(6) + 2 * bit(7) + bit(8)

\* bits in order, eight to a byte, the last byte padded with zero bits
PackedBytes(bits) == [k \in 1..((Len(bits) + 7) \div 8) |-> PackedByte(bits, k)]

\* C16: for a non-empty input, the stream compress returns is every bit it
\* emitted, in order, the terminating bit and its pending bits included,
\* padded with zero bits to a whole byte: ceil(emitted bits / 8) bytes, at
\* least one.
C16_ArithStreamIsEmittedBits ==
    (arith_enc.pc = "returned" /\ arith_enc.data # <<>>) =>
        /\ arith_enc.emitted # <<>>
        /\ Len(arith_enc.compressed_data) = (Len(arith_enc.emitted) + 7) \div 8
        /\ arith_enc.compressed_data = PackedBytes(arith_enc.emitted)

\* The integer of the bits at positions 1..k of bits, most significant
\* first, a position past the end of bits counting as 0.
RECURSIVE ZeroPaddedValue(_, _)
ZeroPaddedValue(bits, k) ==
    IF k = 0 THEN 0
    ELSE 2 * ZeroPaddedValue(bits, k - 1) + (IF k <= Len(bits) THEN bits[k] ELSE 0)

\* C17: when decompress starts on a non-empty stream, value is the integer of
\* the first precision bits of the stream, most significant first, with 0
\* for every position beyond its end, also for a stream shorter than
\* precision bits.
C17_ArithInitialValuePadded ==
    (arith_dec.pc = "symbol" /\ arith_dec.n = 0) =>
        arith_dec.value = ZeroPaddedValue(arith_dec.bits, precision)

\* The pending-bit counter of an instance; 0 before _emit_bit has created it.
PendingBits(self) == IF self.has_bit_buffer THEN self.pending_bits ELSE 0

\* C18: in compress, an iteration of the renormalisation loop that takes the
\* middle-half case adds one to the pending-bit counter and emits nothing,
\* and does so without error from a counter of 0, also as the first case
\* taken in the call; an iteration that emits a definite bit b emits after
\* it as many bits 1-b as the counter held and leaves the counter 0.
C18_ArithPendingBits ==
    [][(arith_enc.pc = "renorm" /\ arith_enc' # arith_enc) =>
          IF arith_enc.high < half \/ arith_enc.low >= half
          THEN arith_enc'.pc # "raised" =>
                  /\ arith_enc'.emitted =
                         arith_enc.emitted
                         \o <<IF arith_enc.high < half THEN 0 ELSE 1>>
                         \o [k \in 1..PendingBits(arith_enc.self) |->
                                IF arith_enc.high < half THEN 1 ELSE 0]
                  /\ PendingBits(arith_enc'.self) = 0
          ELSE IF arith_enc.low >= quarter /\ arith_enc.high < 3 * quarter
          THEN /\ arith_enc'.pc = "renorm"
               /\ PendingBits(arith_enc'.self) = PendingBits(arith_enc.self) + 1
               /\ arith_enc'.emitted = arith_enc.emitted
          ELSE TRUE]_vars

\* C19: decompress of what compress(x) returned moves in lockstep with the
\* encoder: when the i-th symbol has been decoded and renormalised, the
\* decoder's (low, high) is the encoder's after the i-th byte, the decoded
\* symbol is x[i], and low <= value <= high.
C19_ArithLockstep ==
    (arith_dec.pc \in {"symbol", "returned"} /\ arith_dec.n >= 1) =>
        /\ arith_dec.n <= Len(arith_enc.trail)
        /\ <<arith_dec.low, arith_dec.high>> = arith_enc.trail[arith_dec.n]
        /\ arith_dec.result[arith_dec.n] = arith_enc.data[arith_dec.n]
        /\ arith_dec.low <= arith_dec.value
        /\ arith_dec.value <= arith_dec.high

\* C20: arithmetic compress and decompress terminate: each renormalisation
\* loop exits after finitely many iterations.  Whether a loop goes on depends
\* on (low, high) alone, so no iteration that stays in the loop leaves
\* (low, high) as it found them.
C20_ArithLoopsExit ==
    [][/\ (arith_enc.pc = "renorm" /\ arith_enc'.pc = "renorm"
            /\ arith_enc' # arith_enc) =>
               <<arith_enc'.low, arith_enc'.high>> # <<arith_enc.low, arith_enc.high>>
       /\ (arith_dec.pc = "renorm" /\ arith_dec'.pc = "renorm"
            /\ arith_dec' # arith_dec) =>
               <<arith_dec'.low, arith_dec'.high>> # <<arith_dec.low, arith_dec.high>>]_vars

\* Entry c of the decoder's reverse_dict is the sequence to which the
\* encoder's dictionary gave the code c.
LZWSameEntry(reverse_dict, dictionary, c) ==
    /\ reverse_dict[c] \in DOMAIN dictionary
    /\ dictionary[reverse_dict[c]] = c

\* after holds every entry of before, and each entry it has more is one of
\* the encoder's dictionary.
LZWKeepsAndAdds(before, after, dictionary) ==
    \A c \in DOMAIN after :
        IF c \in DOMAIN before THEN after[c] = before[c]
        ELSE LZWSameEntry(after, dictionary, c)

\* C21: while decompress works through the code list compress produced,
\* after k codes (k >= 1) its dictionary holds exactly the codes
\* 0 .. min(256 + k - 1, 4096) - 1, each with the byte sequence the encoder
\* gave that code: every step keeps the entries it found and adds only
\* entries the encoder made.
C21_LZWLockstep ==
    [][(lzw_dec'.pc = "loop" /\ lzw_dec' # lzw_dec) =>
          /\ lzw_dec'.i >= 1
          /\ DOMAIN lzw_dec'.reverse_dict =
                 0..((IF 256 + lzw_dec'.i - 1 < max_dict_size
                      THEN 256 + lzw_dec'.i - 1 ELSE max_dict_size) - 1)
          /\ LZWKeepsAndAdds(lzw_dec.reverse_dict, lzw_dec'.reverse_dict,
                             lzw_enc.dictionary)]_vars

C21_Witness ==
    /\ lzw_dec.pc = "loop"
    /\ lzw_dec.i > max_dict_size - 256 + 1
    /\ DOMAIN lzw_dec.reverse_dict = 0..(max_dict_size - 1)
    /\ LZWSameEntry(lzw_dec.reverse_dict, lzw_enc.dictionary, max_dict_size - 1)
    /\ LZWSameEntry(lzw_dec.reverse_dict, lzw_enc.dictionary, 256)

\* C22: while decompress decodes the code list of compress, the branch of
\* line 163 (the code is not in the dictionary) is taken only for the code
\* that is the decoder's next free code, the cap not yet reached, and the
\* sequence it rebuilds, prev_sequence + prev_sequence[0], is the one to
\* which the encoder gave that code.
C22_LZWSelfReferentialCode ==
    [][(lzw_dec'.taken = "not_in_dict" /\ lzw_dec.pc = "loop"
            /\ lzw_dec'.i = lzw_dec.i + 1) =>
          LET code == lzw_dec.compressed_codes[lzw_dec.i + 1]
              rebuilt == Append(lzw_dec.prev_sequence, lzw_dec.prev_sequence[1])
          IN  /\ code = lzw_dec.next_code
              /\ code < max_dict_size
              /\ lzw_dec'.prev_sequence = rebuilt
              /\ rebuilt \in DOMAIN lzw_enc.dictionary
              /\ lzw_enc.dictionary[rebuilt] = code]_vars

\* The branch was taken for code 4095, the last one before the cap.
C22_Witness ==
    /\ lzw_dec.pc = "loop"
    /\ lzw_dec.taken = "not_in_dict"
    /\ lzw_dec.compressed_codes[lzw_dec.i] = max_dict_size - 1
    /\ lzw_enc.dictionary[lzw_dec.prev_sequence] = max_dict_size - 1

\* C23: a full dictionary is not an error.  Once the encoder's dictionary
\* holds max_dict_size entries, every later step of compress leaves the
\* dictionary and the next free code as they are, no step raises, and a code
\* it emits is the code the dictionary already has for the current sequence.
C23_LZWFullDictionaryKept ==
    [][(lzw_enc.pc \in {"loop", "pack"}
            /\ Cardinality(DOMAIN lzw_enc.dictionary) = max_dict_size) =>
          /\ lzw_enc'.dictionary = lzw_enc.dictionary
          /\ lzw_enc'.next_code = lzw_enc.next_code
          /\ lzw_enc'.pc \in {"loop", "pack", "returned"}
          /\ lzw_enc'.error = "none"
          /\ Len(lzw_enc'.compressed_codes) > Len(lzw_enc.compressed_codes) =>
                /\ lzw_enc.current_sequence \in DOMAIN lzw_enc.dictionary
                /\ LastOf(lzw_enc'.compressed_codes) =
                       lzw_enc.dictionary[lzw_enc.current_sequence]
                /\ LastOf(lzw_enc'.compressed_codes) < max_dict_size]_vars

\* compress has returned after a step of its loop that found a sequence not
\* in the full dictionary and emitted a code.
C23_Witness ==
    /\ lzw_enc.pc = "returned"
    /\ lzw_enc.error = "none"
    /\ Cardinality(DOMAIN lzw_enc.dictionary) = max_dict_size
    /\ lzw_enc.next_code = max_dict_size
    /\ Len(lzw_enc.compressed_codes) > max_dict_size - 256 + 1

\* Bit p of codes written as 12-bit words, most significant bit first; a
\* position past the last word counts as 0.
LZWCodeBit(codes, p) ==
    IF p <= code_size * Len(codes)
    THEN (codes[(p - 1) \div code_size + 1]
             \div Pow2(code_size - 1 - ((p - 1) % code_size))) % 2
    ELSE 0

\* Byte k of those bits, eight to a byte.
LZWPackedByte(codes, k) ==
    LET bit(j) == LZWCodeBit(codes, 8 * (k - 1) + j)
    IN  128 * bit(1) + 64 * bit(2) + 32 * bit(3) + 16 * bit(4)
        + 8 * bit(5) + 4 * bit(6) + 2 * bit(7) + bit(8)

\* C24: for a non-empty input whose code list has n codes, the bytes compress
\* returns are those codes as 12-bit words, most significant bit first, the
\* last byte padded with zero bits: ceil(12 * n / 8) bytes, from which
\* _bytes_to_codes(compressed, n) gives back the metadata's compressed_codes.
\* (The bytes are compared in the state in which compress has just returned;
\* they do not change afterwards.)
C24_LZWPackedCodes ==
    /\ (lzw_enc.pc = "returned" /\ lzw_enc.data # <<>> /\ lzw_dec.pc = "idle") =>
           /\ Len(lzw_enc.metadata.compressed_codes) >= 1
           /\ Len(lzw_enc.compressed_data) =
                  (code_size * Len(lzw_enc.metadata.compressed_codes) + 7) \div 8
           /\ \A k \in 1..Len(lzw_enc.compressed_data) :
                  lzw_enc.compressed_data[k] =
                      LZWPackedByte(lzw_enc.metadata.compressed_codes, k)
    /\ (lzw_unpack.pc = "returned" /\ lzw_enc.data # <<>>) =>
           lzw_unpack.codes = lzw_enc.metadata.compressed_codes

\* _bytes_to_codes has returned the three codes of a compress call, one of
\* them of more than 8 bits, from five bytes: the last byte carries four bits
\* of padding.
C24_Witness ==
    /\ lzw_unpack.pc = "returned"
    /\ Len(lzw_enc.metadata.compressed_codes) = 3
    /\ \E k \in 1..3 : lzw_enc.metadata.compressed_codes[k] >= 256
    /\ Len(lzw_enc.compressed_data) = 5
    /\ lzw_unpack.codes = lzw_enc.metadata.compressed_codes

\* The number of bits of the code words of the first k bytes of data.
RECURSIVE HuffCodeLengths(_, _, _)
HuffCodeLengths(data, codes, k) ==
    IF k = 0 THEN 0
    ELSE HuffCodeLengths(data, codes, k - 1) + Len(codes[data[k]])

\* C25: for a non-empty input, the metadata's original_length is the sum of
\* the lengths of the code words of the input's bytes; the bytes returned are
\* those code words in order, padded with zero bits to a whole byte:
\* ceil(original_length / 8) bytes, and padding is
\* (8 - original_length mod 8) mod 8.
C25_HuffEncodedLength ==
    (huff_enc.pc = "returned" /\ huff_enc.data # <<>>) =>
        LET codes == huff_enc.metadata.huffman_codes
            n == huff_enc.metadata.original_length
            bits == BytesToBits(huff_enc.compressed_data)
        IN  /\ n = HuffCodeLengths(huff_enc.data, codes, Len(huff_enc.data))
            /\ Len(huff_enc.compressed_data) = (n + 7) \div 8
            /\ huff_enc.metadata.padding = (8 - (n % 8)) % 8
            /\ \A k \in 1..Len(huff_enc.data) :
                   SubSeq(bits, HuffCodeLengths(huff_enc.data, codes, k - 1) + 1,
                          HuffCodeLengths(huff_enc.data, codes, k))
                       = codes[huff_enc.data[k]]
            /\ \A q \in (n + 1)..Len(bits) : bits[q] = 0

\* Six identical bytes: the code "0" six times, in one byte, two bits of
\* padding.
C25_Witness ==
    /\ huff_enc.pc = "returned"
    /\ huff_enc.data = HuffRepeated
    /\ huff_enc.metadata.huffman_codes[Sym(0)] = <<0>>
    /\ huff_enc.metadata.original_length = 6
    /\ huff_enc.metadata.padding = 2
    /\ huff_enc.compressed_data = <<0>>

\* What the loop of decompress is left with after the last bit: the candidate
\* code word not yet matched.
HuffLeftOver(compressed_data, metadata) ==
    HuffDecodeLoop(HuffBytesToBits(compressed_data, metadata.original_length),
                   HuffReverseCodes(metadata.huffman_codes), <<>>, <<>>).current_code

\* C26: decompress raises, and returns no bytes, when the stream and the
\* metadata do not fit: the first original_length bits do not split into
\* whole code words, or the stream holds fewer than original_length bits.
C26_HuffInconsistentRaises ==
    (/\ huff_dec_tampered.pc # "idle"
     /\ \/ 8 * Len(huff_dec_tampered.compressed_data)
               < huff_dec_tampered.metadata.original_length
        \/ HuffLeftOver(huff_dec_tampered.compressed_data,
                        huff_dec_tampered.metadata) # <<>>)
        => huff_dec_tampered.pc = "raised"

\* compressed_data is not codes packed as 12-bit words.
LZWStreamMismatch(compressed_data, codes) ==
    \/ Len(compressed_data) # (code_size * Len(codes) + 7) \div 8
    \/ \E k \in 1..Len(compressed_data) :
           compressed_data[k] # LZWPackedByte(codes, k)

\* Some code of codes is, at its turn, neither in the decoder's dictionary
\* nor its next free code: the dictionary holds 256 + k - 2 codes, at most
\* max_dict_size, when the code at position k >= 2 is read.
LZWInvalidCode(codes) ==
    \E k \in 1..Len(codes) :
        codes[k] > (IF 254 + k < max_dict_size - 1 THEN 254 + k
                    ELSE max_dict_size - 1)

\* C27: decompress raises when the stream does not unpack to the metadata's
\* code list, or when a code is neither in the dictionary nor the next free
\* code; it never returns bytes decided by the metadata alone for a stream
\* that does not match.
C27_LZWInconsistentRaises ==
    (/\ lzw_dec_tampered.pc # "idle"
     /\ \/ LZWStreamMismatch(lzw_dec_tampered.compressed_data,
                             lzw_dec_tampered.metadata.compressed_codes)
        \/ LZWInvalidCode(lzw_dec_tampered.metadata.compressed_codes))
        => lzw_dec_tampered.pc = "raised"

\* C28: on an instance that has served calls before, compress and decompress
\* of the Huffman and the LZW codec return what they return on a new
\* instance: the result depends on the arguments alone, also when an
\* empty-input compress has left huffman_codes and reverse_codes of the call
\* before in the instance.  compress is compared with the call on a new
\* instance; decompress returns the input of the compress call whose result
\* it is given, as it does on a new instance.
C28_CallsIndependent ==
    /\ huff_enc.pc # "idle" =>
           /\ huff_enc.pc = HuffCompress(HuffFresh, huff_enc.data).pc
           /\ huff_enc.compressed_data =
                  HuffCompress(HuffFresh, huff_enc.data).compressed_data
           /\ huff_enc.metadata = HuffCompress(HuffFresh, huff_enc.data).metadata
    /\ huff_dec.pc # "idle" =>
           /\ huff_dec.pc = "returned"
           /\ huff_dec.result = huff_enc.data
    /\ lzw_calls >= 1 =>
           /\ lzw_enc = LZWCompress(lzw_enc.data)
           /\ lzw_dec.pc # "idle" =>
                  /\ lzw_dec.pc = "returned"
                  /\ lzw_dec.result = lzw_enc.data

\* Both instances have served a call before: the Huffman one compressed an
\* input of several symbols and then the empty input, keeping the codes of
\* the first; the LZW one compressed and decompressed twice.
C28_Witness ==
    /\ huff_calls = MaxCalls
    /\ huff_enc.data = <<>>
    /\ Cardinality(DOMAIN huff_enc.self.huffman_codes) >= 2
    /\ huff_enc.metadata.huffman_codes = <<>>
    /\ huff_dec.pc = "returned"
    /\ lzw_calls = MaxCalls
    /\ lzw_enc.data # <<>>
    /\ lzw_dec.pc = "returned"
    /\ lzw_dec.taken = "not_in_dict"

C30_DownloadLatestUpload ==
    (cloud_download.pc # "idle" /\ cloud_call.pc = "returned") =>
        /\ cloud_download.pc = "returned"
        /\ cloud_download.written
        /\ cloud_download.local = cloud_call.data

====
